---- MODULE Spec2Model ----
(***************************************************************************)
(* Simulated realtime transcript playback of the CallDetailModal           *)
(* (pages/CallRecords/CallDetailModal.tsx) that CallRecords renders for the*)
(* selected call: its mounts, the changes of its call prop, its renders,   *)
(* the callbacks of its timers and its unmounts by onClose.                *)
(*                                                                         *)
(* A string is a sequence of characters, one element per UTF-16 code unit  *)
(* (every character of the script is in the BMP); the Chinese characters   *)
(* are written as their pinyin syllable.                                   *)
(*                                                                         *)
(* Time is the order of the callbacks and the milliseconds between them:   *)
(* a new timer fires no earlier than one millisecond after it was armed,   *)
(* and after every timer of the same or a shorter delay that waits before  *)
(* it (the rules of setTimeout and setInterval); callbacks may be late.    *)
(* An interval that has ticked waits for its next tick either a full delay *)
(* from the callback (Node) or until the next multiple of the delay after  *)
(* the time the tick was due (Chrome, which keeps the phase of a late      *)
(* tick): it takes its place behind the timers that waited before it, and  *)
(* before or behind the ones that were armed since its tick before this    *)
(* one.                                                                    *)
(* The clock never goes back; its readings are counted from the mount, and *)
(* a millisecond in which nothing reads the clock is not counted.          *)
(***************************************************************************)
EXTENDS Integers, Sequences, FiniteSets, TLC

(* ---------------------------------------------------------------- bounds *)
\* number of messages of simulatedContinuation that are played
ContLen == 2
\* number of characters of a message content that are kept
MaxLen == 2
\* number of times a call is bound after the first binding: changes of the
\* call prop and mounts after the first
MaxChanges == 1
\* last reading of the clock that is followed
MaxNow == 3

(* ------------------------------------------------------- pure functions *)
Min(a, b) == IF a < b THEN a ELSE b
Max(a, b) == IF a > b THEN a ELSE b

\* Array.prototype.slice / String.prototype.slice with 0-based start and end
\* (a negative index counts from the end, both are clamped to the length).
Slice(s, start, end) ==
    LET n  == Len(s)
        from == IF start < 0 THEN Max(n + start, 0) ELSE Min(start, n)
        to == IF end < 0 THEN Max(n + end, 0) ELSE Min(end, n)
    IN  IF from >= to THEN << >> ELSE SubSeq(s, from + 1, to)

\* slice(start) without an end
SliceFrom(s, start) == Slice(s, start, Len(s))

Text(s) == Slice(s, 0, MaxLen)

(* ------------------------------------------------------------ the script *)
FullContinuation ==
    << [id |-> <<"sim1">>, role |-> "customer", timestamp |-> << >>,
        content |-> <<"wo", "xiang", "dian", "yi">>],
       [id |-> <<"sim2">>, role |-> "ai", timestamp |-> << >>,
        content |-> <<"hao", "de", ",", "gong">>],
       [id |-> <<"sim3">>, role |-> "customer", timestamp |-> << >>,
        content |-> <<"zai", "lai", "yi", "fen">>],
       [id |-> <<"sim4">>, role |-> "ai", timestamp |-> << >>,
        content |-> <<"shou", "dao", ",", "chao">>] >>

simulatedContinuation ==
    [k \in 1..ContLen |->
        [FullContinuation[k] EXCEPT !.content = Text(@)]]

(* ---------------------------------------------------- sample call records *)
M1 == [id |-> <<"m1">>, role |-> "customer", timestamp |-> <<"t1">>,
       content |-> Text(<<"ni", "hao", "a">>)]
M2 == [id |-> <<"m2">>, role |-> "ai", timestamp |-> <<"t2">>,
       content |-> Text(<<"qing", "jiang", "ba">>)]

Transcripts == { << >>, <<M2>>, <<M1, M2>> }
Statuses == {"in_progress", "completed", "missed"}

\* every call record owns its transcript array: two records never share one
Calls == [status : Statuses, transcript : Transcripts]

(* ------------------------------------------------------------ the state *)
VARIABLES
    mounted,            \* the modal is rendered (selectedCall is not null)
    gen,                \* the number of the binding: the bindings of a call,
                        \* at a mount or by a change of the call prop, are
                        \* counted from 0; -1 before the first mount
    first,              \* the number of the binding at the last mount
    call,               \* the call prop
    displayedMessages, currentTypingText, isTyping, typingRole,
    messageIndex, isLiveDemo,
    timeout,            \* the timeout owned by the last run of the playback effect
    effectDeps,         \* isLiveDemo and messageIndex of the render for which
                        \* the playback effect ran last
    intervals,          \* the typing intervals that are running, oldest first;
                        \* elapsed: the delays that have passed since the
                        \* pause of the message began
    cycle,              \* script messages committed since the binding or
                        \* the last loop reset, in commit order
    last,               \* the last step taken and the binding it belongs to
    binding,            \* how the call prop got its value: "mount", "change"
                        \* (another call) or "rebind" (the same call again)
    cleanup,            \* the timeout that the cleanup of the playback effect
                        \* has cleared in the last step, if it ran in it
    armed,              \* the running timers in the order they were armed:
                        \* key 0 is the timeout, key i is intervals[i];
                        \* fresh: armed in the current millisecond
    now,                \* Date.now(), counted from the first mount
    stamped,            \* the ids generated in the current millisecond
    read                \* the clock was read in the current millisecond

modalVars == <<mounted, gen, first, call, displayedMessages, currentTypingText,
               isTyping, typingRole, messageIndex, isLiveDemo, timeout,
               effectDeps, intervals, cycle, last, binding, cleanup, armed,
               now, stamped, read>>

(* --------------------------------- the login and forgot-password pages *)
VARIABLES
    page,               \* "login", "forgot", or "none" once it is unmounted
    activeTab,          \* Login: the tab that is shown
    step,               \* ForgotPassword: the step of the flow, 1..4
    phone,              \* the digits of the phone field
    otp,                \* ForgotPassword: the digits of the code fields, joined
    countdown,          \* seconds until the code may be sent again
    loading,            \* ForgotPassword: a request is running
    codeSending,        \* Login: a send request is running
    formError,          \* the error message of the page (its key)
    sending,            \* the calls of sendVerificationCode that have not
                        \* resolved, oldest first; countdown: its value at
                        \* the call
    timers,             \* the timeouts of the countdown effect that are armed;
                        \* each holds the countdown of the render that armed it
    rendered,           \* the countdown of the last render, the dependency
                        \* of the countdown effect at its last run
    scheduled,          \* a callback has set state and the render that
                        \* follows has not run yet
    done,               \* the last step taken on the page
    code,               \* Login: the digits of the code field
    username, password  \* Login: the fields of the account tab

\* the fields of Login that ForgotPassword does not have
loginFields == <<code, username, password>>

\* the render of the page
renderVars == <<rendered, scheduled>>

authVars == <<page, activeTab, step, phone, otp, countdown, loading,
              codeSending, formError, sending, timers, renderVars, done,
              loginFields>>

\* no login or forgot-password page is rendered
NoPage ==
    /\ page = "none"
    /\ activeTab = "phone"
    /\ step = 1
    /\ phone = << >>
    /\ otp = [k \in 1..6 |-> ""]
    /\ countdown = 0
    /\ loading = FALSE
    /\ codeSending = FALSE
    /\ formError = ""
    /\ sending = << >>
    /\ timers = << >>
    /\ rendered = 0
    /\ scheduled = FALSE
    /\ code = << >>
    /\ username = ""
    /\ password = ""
    /\ done = "none"

(* ------------------------------------------------ the CallRecords page *)
VARIABLES
    records,            \* mockCallRecords
    searchTerm, statusFilter, dateFilter, currentPage

recordsVars == <<records, searchTerm, statusFilter, dateFilter, currentPage>>

\* no CallRecords page is rendered
NoRecords ==
    /\ records = << >>
    /\ searchTerm = << >>
    /\ statusFilter = "all"
    /\ dateFilter = << >>
    /\ currentPage = 1

(* ------------------------------------------------ the useAudioPlayer hook *)
VARIABLES
    hooked,             \* a component that uses the hook is mounted
    url,                \* the url argument, "none" when it is undefined
    audio,              \* audioRef.current: the number of the Audio element,
                        \* 0 for null
    created,            \* the number of Audio elements created so far
    isPlaying, currentTime, duration, isLoading, error,
    plays,              \* the promises of play() that are not settled, oldest
                        \* first; settle: "wait" while the element is loading,
                        \* "then" / "catch" once the fulfilment / the
                        \* rejection is queued
    ready,              \* the Audio elements that have loaded enough to play
    closure,            \* isPlaying of the last render, which togglePlay
                        \* holds
    heard               \* the last callback that ran and its Audio element

audioVars == <<hooked, url, audio, created, isPlaying, currentTime, duration,
               isLoading, error, plays, ready, closure, heard>>

\* the state hooks of useAudioPlayer hold their initial values
NoPlayback ==
    /\ isPlaying = FALSE
    /\ currentTime = 0
    /\ duration = 0
    /\ isLoading = FALSE
    /\ error = "null"

\* no component uses the hook
NoAudio ==
    /\ hooked = FALSE
    /\ url = "none"
    /\ audio = 0
    /\ created = 0
    /\ NoPlayback
    /\ plays = << >>
    /\ ready = {}
    /\ closure = FALSE
    /\ heard = [op |-> "none", audio |-> 0]

vars == <<modalVars, authVars, recordsVars, audioVars>>

\* the state of the components a step of the modal leaves alone
besideModal == <<authVars, recordsVars, audioVars>>
\* the state of the components a step of a page leaves alone
besidePage == <<modalVars, recordsVars, audioVars>>
\* the state of the components a step of CallRecords leaves alone
besideRecords == <<modalVars, authVars, audioVars>>
\* the state of the components a step of the audio player leaves alone
besideAudio == <<modalVars, authVars, recordsVars>>

NoCall == [status |-> "none", transcript |-> << >>]
NoTimer == [kind |-> "none"]

(* ------------------------------------------------------- the two effects *)
\* an init effect that displays the whole transcript of a live call
InitEffectShowsAll(c, idx) ==
    IF c.status = "in_progress"
    THEN [isLiveDemo |-> TRUE,
          displayedMessages |-> c.transcript,
          messageIndex |-> 0]
    ELSE [isLiveDemo |-> FALSE,
          displayedMessages |-> c.transcript,
          messageIndex |-> idx]

\* an init effect that is static for completed calls only
InitEffectMissedLive(c, idx) ==
    IF c.status # "completed"
    THEN [isLiveDemo |-> TRUE,
          displayedMessages |-> Slice(c.transcript, 0, -1),
          messageIndex |-> 0]
    ELSE [isLiveDemo |-> FALSE,
          displayedMessages |-> c.transcript,
          messageIndex |-> idx]

\* useEffect(..., [call]): the state it sets
InitEffect(c, idx) ==
    IF c.status = "in_progress"
    THEN [isLiveDemo |-> TRUE,
          displayedMessages |-> Slice(c.transcript, 0, -1),
          messageIndex |-> 0]
    ELSE [isLiveDemo |-> FALSE,
          displayedMessages |-> c.transcript,
          messageIndex |-> idx]

\* the live script without the seed
allMessagesNoSeed(transcript) == simulatedContinuation

allMessages(transcript) == SliceFrom(transcript, -1) \o simulatedContinuation

\* a cadence that reveals the customer faster
typingSpeedSlowAi(msg) == IF msg.role = "ai" THEN 50 ELSE 30

typingSpeed(msg) == IF msg.role = "ai" THEN 30 ELSE 50
pauseBeforeTyping(msg) == IF msg.role = "customer" THEN 1500 ELSE 800
CooldownDelay == 3000

\* the playback effect without its isLiveDemo guard
PlaybackEffectNoGuard(live, idx, transcript) ==
    IF idx >= Len(allMessages(transcript))
    THEN [kind |-> "cooldown", transcript |-> transcript,
          delay |-> CooldownDelay]
    ELSE LET currentMessage == allMessages(transcript)[idx + 1]
         IN  [kind |-> "pause", msg |-> currentMessage,
              delay |-> pauseBeforeTyping(currentMessage)]

\* the value of an array read beyond its end
Undefined == [id |-> <<"undefined">>]

\* allMessages[messageIndex]
ReadMessage(all, idx) ==
    IF idx >= 0 /\ idx < Len(all) THEN all[idx + 1] ELSE Undefined

\* the playback effect with a cooldown test that lets the cursor reach the end
PlaybackEffectPastEnd(live, idx, transcript) ==
    IF ~live THEN NoTimer
    ELSE IF idx > Len(allMessages(transcript))
    THEN [kind |-> "cooldown", transcript |-> transcript,
          delay |-> CooldownDelay]
    ELSE LET currentMessage == ReadMessage(allMessages(transcript), idx)
         IN  IF currentMessage = Undefined
             THEN [kind |-> "error"]
             ELSE [kind |-> "pause", msg |-> currentMessage,
                   delay |-> pauseBeforeTyping(currentMessage)]

\* the playback effect that stops at the end of the script
PlaybackEffectNoLoop(live, idx, transcript) ==
    IF ~live \/ idx >= Len(allMessages(transcript)) THEN NoTimer
    ELSE LET currentMessage == ReadMessage(allMessages(transcript), idx)
         IN  IF currentMessage = Undefined
             THEN [kind |-> "error"]
             ELSE [kind |-> "pause", msg |-> currentMessage,
                   delay |-> pauseBeforeTyping(currentMessage)]

\* the playback effect that plays only a call that has a seed message
PlaybackEffectNeedsSeed(live, idx, transcript) ==
    IF ~live \/ transcript = << >> THEN NoTimer
    ELSE IF idx >= Len(allMessages(transcript))
    THEN [kind |-> "cooldown", transcript |-> transcript,
          delay |-> CooldownDelay]
    ELSE LET currentMessage == ReadMessage(allMessages(transcript), idx)
         IN  [kind |-> "pause", msg |-> currentMessage,
              delay |-> pauseBeforeTyping(currentMessage)]

\* useEffect(..., [isLiveDemo, messageIndex, call.transcript]): the timeout
\* one run of it creates; reading role of an undefined currentMessage throws
PlaybackEffect(live, idx, transcript) ==
    IF ~live THEN NoTimer
    ELSE IF idx >= Len(allMessages(transcript))
    THEN [kind |-> "cooldown", transcript |-> transcript,
          delay |-> CooldownDelay]
    ELSE LET currentMessage == ReadMessage(allMessages(transcript), idx)
         IN  IF currentMessage = Undefined
             THEN [kind |-> "error"]
             ELSE [kind |-> "pause", msg |-> currentMessage,
                   delay |-> pauseBeforeTyping(currentMessage)]

\* the message a finished typing interval appends
\* new Date().toISOString()
ISOString(ms) == <<"T", ms>>

\* a commit that appends the message without its content
newMessageNoContent(currentMessage, ms, at) ==
    [currentMessage EXCEPT !.id = currentMessage.id \o <<"-", ms>>,
                           !.timestamp = ISOString(at),
                           !.content = << >>]

\* { ...currentMessage, id: `${currentMessage.id}-${Date.now()}`,
\*   timestamp: new Date().toISOString() }: the clock is read twice, ms is
\* the reading of Date.now() and at the reading of new Date()
newMessage(currentMessage, ms, at) ==
    [currentMessage EXCEPT !.id = currentMessage.id \o <<"-", ms>>,
                           !.timestamp = ISOString(at)]

\* a run of the playback effect whose cleanup leaves a pending timeout alone
EffectRunKeepsPending(pending, live, idx, transcript) ==
    IF pending # NoTimer THEN pending
    ELSE PlaybackEffect(live, idx, transcript)

\* one run of the playback effect: the cleanup of its last run clears the
\* timeout that is pending, then the effect creates the timeout of this run
EffectRun(pending, live, idx, transcript) ==
    PlaybackEffect(live, idx, transcript)

\* the dependencies isLiveDemo and messageIndex of the playback effect
Deps(live, idx) == [isLiveDemo |-> live, messageIndex |-> idx]

\* a pause callback that always announces the assistant
StartTypingAsAi(currentMessage) ==
    [typingRole |-> "ai", isTyping |-> TRUE, currentTypingText |-> << >>]

\* the pauseTimer callback: setTypingRole(currentMessage.role),
\* setIsTyping(true), setCurrentTypingText('')
StartTyping(currentMessage) ==
    [typingRole |-> currentMessage.role, isTyping |-> TRUE,
     currentTypingText |-> << >>]

\* the prefix one character too short
TypedPrefixShort(content, charIndex) == Slice(content, 0, charIndex)

\* setCurrentTypingText(currentMessage.content.slice(0, charIndex + 1))
TypedPrefix(content, charIndex) == Slice(content, 0, charIndex + 1)

\* a tick that forgets to advance
NextCharIndexStuck(charIndex) == charIndex

\* charIndex++
NextCharIndex(charIndex) == charIndex + 1

\* a commit that skips a script message
NextMessageIndexSkip(prev) == prev + 2

\* setMessageIndex(prev => prev + 1)
NextMessageIndex(prev) == prev + 1

\* a reset that shows the whole transcript
ResetDisplayedFull(transcript) == transcript

\* the cooldown callback: setDisplayedMessages(call.transcript.slice(0, -1))
ResetDisplayed(transcript) == Slice(transcript, 0, -1)

\* a commit that puts the message in front
AppendMessageFront(prev, message) == <<message>> \o prev

\* a commit that stamps the displayed messages again
AppendMessageRestamp(prev, message) ==
    [k \in 1..Len(prev) |-> [prev[k] EXCEPT !.timestamp = message.timestamp]]
        \o <<message>>

\* setDisplayedMessages(prev => [...prev, newMessage])
AppendMessage(prev, message) == Append(prev, message)

\* a commit that leaves its interval running
ClearIntervalLeak(ivs, i) == ivs

\* clearInterval(typeTimer) for the i-th running interval
ClearInterval(ivs, i) == SubSeq(ivs, 1, i - 1) \o SubSeq(ivs, i + 1, Len(ivs))

(* --------------------------------------------------------------- timers *)
\* clearTimeout / clearInterval: the timer leaves the arming order
Unarm(q, key) == SelectSeq(q, LAMBDA e : e.key # key)

\* setTimeout / setInterval: the new timer is the last one armed.  An entry
\* of the arming order records whether the timer was armed in the current
\* millisecond and fires in a later one (fresh), whether it is an interval
\* whose next tick may come in the millisecond of its last tick (early), and
\* the intervals that have ticked while it waited and whose next tick comes
\* after it (seen)
Arm(q, key) ==
    Append(Unarm(q, key),
           [key |-> key, fresh |-> TRUE, early |-> FALSE, seen |-> {}])

\* the keys of the intervals behind the i-th, which has been cleared
Shift(q, i) ==
    [k \in DOMAIN q |->
        [q[k] EXCEPT !.key = IF @ > i THEN @ - 1 ELSE @,
                     !.seen = {IF j > i THEN j - 1 ELSE j : j \in @ \ {i}}]]

\* the timeout of the playback effect after a run that created timeout t
SetTimeout(q, t) ==
    IF t.kind \in {"pause", "cooldown"} THEN Arm(q, 0) ELSE Unarm(q, 0)

Delay(key) == IF key = 0 THEN timeout.delay ELSE intervals[key].delay
Pos(key) == CHOOSE k \in DOMAIN armed : armed[k].key = key

\* a timer may fire when every timer that waits before it has a longer
\* delay
Due(key) ==
    /\ \E k \in DOMAIN armed : armed[k].key = key
    /\ \A k \in 1..(Pos(key) - 1) : Delay(armed[k].key) > Delay(key)

\* a timer that was armed in the current millisecond fires in a later one
Fresh(key) == armed[Pos(key)].fresh

\* the arming orders after the tick of an interval, which waits for its next
\* tick.  The next tick is due a full delay after the callback (the interval
\* is the last timer), or, when the callback was late and the browser keeps
\* the phase of the interval, at the next multiple of the delay after the
\* time the tick was due, less than a full delay after the callback: the
\* interval keeps its place or takes one further back.  Two ticks later it
\* is more than a full delay after the first: the interval goes behind the
\* timers of the same or a shorter delay that waited at its tick before
\* this one, and a tick in the millisecond of the tick before it is followed
\* by one in a later millisecond
Rearm(q, key) ==
    LET p == CHOOSE k \in DOMAIN q : q[k].key = key
        waiting == Unarm(q, key)
        rest == [j \in DOMAIN waiting |->
                    IF Delay(waiting[j].key) <= Delay(key)
                    THEN [waiting[j] EXCEPT !.seen = @ \cup {key}]
                    ELSE waiting[j]]
    IN  { SubSeq(rest, 1, k - 1)
              \o <<[key |-> key, fresh |-> f, early |-> ~f, seen |-> {}]>>
              \o SubSeq(rest, k, Len(rest)) :
          k \in {n \in p..Len(q) :
                    \A j \in n..Len(waiting) : key \notin waiting[j].seen},
          f \in IF q[p].early THEN {TRUE} ELSE BOOLEAN }

\* the timers after a millisecond has ended: none was armed in the current
\* one
Aged(q) ==
    [k \in DOMAIN q |-> [q[k] EXCEPT !.fresh = FALSE, !.early = FALSE]]

\* the milliseconds that may pass between the reading of Date.now() and the
\* reading of new Date() in one commit
Lates == {0, 1}

\* a callback or the init effect has set isLiveDemo or messageIndex and the
\* render that follows, with its run of the playback effect, has not run yet
Scheduled == mounted /\ Deps(isLiveDemo, messageIndex) # effectDeps

(* ---------------------------------------------------------------- init *)
\* the modal of CallRecords is not rendered
NoModal ==
    /\ mounted = FALSE
    /\ gen = -1
    /\ first = 0
    /\ call = NoCall
    /\ displayedMessages = << >>
    /\ currentTypingText = << >>
    /\ isTyping = FALSE
    /\ typingRole = "ai"
    /\ messageIndex = 0
    /\ isLiveDemo = FALSE
    /\ timeout = NoTimer
    /\ effectDeps = Deps(FALSE, 0)
    /\ intervals = << >>
    /\ cycle = << >>
    /\ last = [op |-> "none", gen |-> -1]
    /\ binding = "mount"
    /\ cleanup = NoTimer
    /\ armed = << >>
    /\ now = 0
    /\ stamped = << >>
    /\ read = FALSE

\* CallRecords renders no modal (selectedCall is null); no other component is
\* in use
Init == NoModal /\ NoPage /\ NoRecords /\ NoAudio

(* -------------------------------------------------------------- actions *)
\* the component that created interval iv is mounted: its setters work
Alive(iv) == mounted /\ iv.gen >= first

\* CallRecords mounts the modal with call c (setSelectedCall(call)): the
\* state hooks hold their initial values in the first render, the init effect
\* sets state, and the playback effect runs with isLiveDemo false and
\* creates no timer; the render for the state the init effect has set
\* follows in ModalRender.  The intervals of an earlier modal are not
\* touched.
Mount(c) ==
    /\ ~mounted
    /\ gen < MaxChanges
    /\ LET st == InitEffect(c, 0)
       IN  /\ mounted' = TRUE
           /\ gen' = gen + 1
           /\ first' = gen + 1
           /\ call' = c
           /\ displayedMessages' = st.displayedMessages
           /\ messageIndex' = st.messageIndex
           /\ isLiveDemo' = st.isLiveDemo
           /\ currentTypingText' = << >>
           /\ isTyping' = FALSE
           /\ typingRole' = "ai"
           /\ timeout' = EffectRun(NoTimer, FALSE, 0, c.transcript)
           /\ effectDeps' = Deps(FALSE, 0)
           /\ armed' = SetTimeout(armed, timeout')
           /\ cycle' = << >>
           /\ last' = [op |-> "mount", gen |-> gen + 1]
           /\ binding' = "mount"
           /\ cleanup' = NoTimer
           /\ UNCHANGED <<intervals, now, stamped, read>>
    /\ UNCHANGED besideModal

\* The parent passes another call: the modal renders with the new prop and
\* the updates that are scheduled, the init effect sets state, and the
\* playback effect runs for the new transcript with the state of this render;
\* the render for the state the init effect has set follows in ModalRender.
\* Typing intervals are not touched: the function the pauseTimer callback
\* returns is never called.
CallChange(c) ==
    /\ mounted
    /\ c # call
    /\ gen < MaxChanges
    /\ LET st == InitEffect(c, messageIndex)
       IN  /\ call' = c
           /\ gen' = gen + 1
           /\ displayedMessages' = st.displayedMessages
           /\ messageIndex' = st.messageIndex
           /\ isLiveDemo' = st.isLiveDemo
           /\ timeout' = EffectRun(timeout, isLiveDemo, messageIndex,
                                   c.transcript)
           /\ effectDeps' = Deps(isLiveDemo, messageIndex)
           /\ armed' = SetTimeout(armed, timeout')
           /\ cycle' = << >>
           /\ last' = [op |-> "change", gen |-> gen + 1]
           /\ binding' = "change"
           /\ cleanup' = timeout
           /\ UNCHANGED <<mounted, first, currentTypingText, isTyping,
                          typingRole, intervals, now, stamped, read>>
    /\ UNCHANGED besideModal

\* The parent passes a new object for the call that is bound already, with the
\* same status and the same messages: the init effect runs again, and the
\* playback effect runs in this render only when the object brings a new
\* transcript array (newTranscript) or an update of isLiveDemo or
\* messageIndex is scheduled.
Rebind(newTranscript) ==
    /\ mounted
    /\ gen < MaxChanges
    /\ LET st == InitEffect(call, messageIndex)
       IN  /\ gen' = gen + 1
           /\ displayedMessages' = st.displayedMessages
           /\ messageIndex' = st.messageIndex
           /\ isLiveDemo' = st.isLiveDemo
           /\ IF newTranscript \/ Scheduled
              THEN /\ timeout' = EffectRun(timeout, isLiveDemo, messageIndex,
                                           call.transcript)
                   /\ armed' = SetTimeout(armed, timeout')
                   /\ cleanup' = timeout
              ELSE /\ cleanup' = NoTimer
                   /\ UNCHANGED <<timeout, armed>>
           /\ effectDeps' = Deps(isLiveDemo, messageIndex)
           /\ cycle' = << >>
           /\ last' = [op |-> "rebind", gen |-> gen + 1]
           /\ binding' = "rebind"
           /\ UNCHANGED <<mounted, first, call, currentTypingText, isTyping,
                          typingRole, intervals, now, stamped, read>>
    /\ UNCHANGED besideModal

\* The render that follows the callbacks of timers and the init effect: the
\* updates they made are applied together, the dependencies of the playback
\* effect have changed, its cleanup clears the timeout that is pending and it
\* runs again.
ModalRender ==
    /\ Scheduled
    /\ timeout' = EffectRun(timeout, isLiveDemo, messageIndex, call.transcript)
    /\ effectDeps' = Deps(isLiveDemo, messageIndex)
    /\ armed' = SetTimeout(armed, timeout')
    /\ last' = [op |-> "render", gen |-> gen]
    /\ cleanup' = timeout
    /\ UNCHANGED <<mounted, gen, first, call, displayedMessages,
                   currentTypingText, isTyping, typingRole, messageIndex,
                   isLiveDemo, intervals, cycle, binding, now, stamped, read>>
    /\ UNCHANGED besideModal

\* onClose: CallRecords unmounts the modal; the cleanup of the playback
\* effect clears its timeout, and the component with its props and state is
\* gone (the variables fall back to the values of an unused component).
Unmount ==
    /\ mounted
    /\ mounted' = FALSE
    /\ call' = NoCall
    /\ displayedMessages' = << >>
    /\ currentTypingText' = << >>
    /\ isTyping' = FALSE
    /\ typingRole' = "ai"
    /\ messageIndex' = 0
    /\ isLiveDemo' = FALSE
    /\ timeout' = NoTimer
    /\ effectDeps' = Deps(FALSE, 0)
    /\ armed' = Unarm(armed, 0)
    /\ cycle' = << >>
    /\ last' = [op |-> "unmount", gen |-> gen]
    /\ binding' = "mount"
    /\ cleanup' = timeout
    /\ UNCHANGED <<gen, first, intervals, now, stamped, read>>
    /\ UNCHANGED besideModal

\* the pauseTimer callback
PauseFires ==
    /\ mounted
    /\ timeout.kind = "pause"
    /\ Due(0) /\ ~Fresh(0)
    /\ typingRole' = StartTyping(timeout.msg).typingRole
    /\ isTyping' = StartTyping(timeout.msg).isTyping
    /\ currentTypingText' = StartTyping(timeout.msg).currentTypingText
    /\ intervals' = Append(intervals,
                           [gen |-> gen, msg |-> timeout.msg, charIndex |-> 0,
                            delay |-> typingSpeed(timeout.msg),
                            elapsed |-> timeout.delay])
    /\ timeout' = NoTimer
    /\ armed' = Arm(Unarm(armed, 0), Len(intervals) + 1)
    /\ last' = [op |-> "pause", gen |-> gen]
    /\ cleanup' = NoTimer
    /\ UNCHANGED <<mounted, gen, first, call, displayedMessages,
                   messageIndex, isLiveDemo, effectDeps, cycle, binding, now,
                   stamped, read>>
    /\ UNCHANGED besideModal

\* the cooldown callback; the render with the run of the playback effect
\* follows in ModalRender
CooldownFires ==
    /\ mounted
    /\ timeout.kind = "cooldown"
    /\ Due(0) /\ ~Fresh(0)
    /\ displayedMessages' = ResetDisplayed(timeout.transcript)
    /\ messageIndex' = 0
    /\ timeout' = NoTimer
    /\ armed' = Unarm(armed, 0)
    /\ cycle' = << >>
    /\ last' = [op |-> "cooldown", gen |-> gen]
    /\ cleanup' = NoTimer
    /\ UNCHANGED <<mounted, gen, first, call, currentTypingText, isTyping,
                   typingRole, isLiveDemo, effectDeps, intervals, binding,
                   now, stamped, read>>
    /\ UNCHANGED besideModal

\* the typeTimer callback, branch charIndex < currentMessage.content.length;
\* the setter of an unmounted component does nothing
TypeTick(i) ==
    /\ i \in 1..Len(intervals)
    /\ Due(i) /\ ~Fresh(i)
    /\ LET iv == intervals[i]
       IN  /\ iv.charIndex < Len(iv.msg.content)
           /\ currentTypingText' =
                IF Alive(iv) THEN TypedPrefix(iv.msg.content, iv.charIndex)
                ELSE currentTypingText
           /\ intervals' = [intervals EXCEPT
                                ![i].charIndex = NextCharIndex(@),
                                ![i].elapsed = @ + iv.delay]
           /\ last' = [op |-> "tick", gen |-> iv.gen]
           /\ cleanup' = NoTimer
    /\ armed' \in Rearm(armed, i)
    /\ UNCHANGED <<mounted, gen, first, call, displayedMessages, isTyping,
                   typingRole, messageIndex, isLiveDemo, timeout, effectDeps,
                   cycle, binding, now, stamped, read>>
    /\ UNCHANGED besideModal

\* the typeTimer callback, else branch; late milliseconds pass between the
\* two readings of the clock, and the render with the run of the playback
\* effect that the new messageIndex causes follows in ModalRender.  The
\* setters of an unmounted component do nothing: its message is dropped and
\* its readings are not kept, and a millisecond that passes in it ends like
\* any other.
Commit(i, late) ==
    /\ i \in 1..Len(intervals)
    /\ Due(i) /\ ~Fresh(i)
    /\ LET iv == intervals[i]
           message == newMessage(iv.msg, now, now + late)
           rest == Shift(Unarm(armed, i), i)
           cleared == IF late = 0 THEN rest ELSE Aged(rest)
       IN  /\ iv.charIndex >= Len(iv.msg.content)
           /\ intervals' = ClearInterval(intervals, i)
           /\ last' = [op |-> "commit", gen |-> iv.gen]
           /\ cleanup' = NoTimer
           /\ IF Alive(iv)
              THEN /\ now + late <= MaxNow
                   /\ isTyping' = FALSE
                   /\ currentTypingText' = << >>
                   /\ displayedMessages' =
                        AppendMessage(displayedMessages, message)
                   /\ messageIndex' = NextMessageIndex(messageIndex)
                   /\ armed' = cleared
                   /\ stamped' = IF late = 0
                                 THEN Append(stamped, message.id)
                                 ELSE << >>
                   /\ now' = now + late
                   /\ read' = TRUE
                   /\ cycle' = Append(cycle, iv.msg)
              ELSE /\ (late = 1 /\ read) => now < MaxNow
                   /\ armed' = cleared
                   /\ now' = IF late = 1 /\ read THEN now + 1 ELSE now
                   /\ stamped' = IF late = 1 THEN << >> ELSE stamped
                   /\ read' = IF late = 1 THEN FALSE ELSE read
                   /\ UNCHANGED <<isTyping, currentTypingText,
                                  displayedMessages, messageIndex, cycle>>
    /\ UNCHANGED <<mounted, gen, first, call, typingRole, isLiveDemo,
                   timeout, effectDeps, binding>>
    /\ UNCHANGED besideModal

\* a millisecond in which a timer was armed or an id was generated ends:
\* the timers that were armed in it may fire from now on, and Date.now()
\* returns the next number; a render that is scheduled may still be waiting
Elapse ==
    /\ \/ \E k \in DOMAIN armed : armed[k].fresh
       \/ read
    /\ read => now < MaxNow
    /\ armed' = Aged(armed)
    /\ now' = IF read THEN now + 1 ELSE now
    /\ read' = FALSE
    /\ stamped' = << >>
    /\ last' = [op |-> "elapse", gen |-> gen]
    /\ cleanup' = NoTimer
    /\ UNCHANGED <<mounted, gen, first, call, displayedMessages,
                   currentTypingText, isTyping, typingRole, messageIndex,
                   isLiveDemo, timeout, effectDeps, intervals, cycle, binding>>
    /\ UNCHANGED besideModal

Next ==
    \/ \E c \in Calls : Mount(c)
    \/ \E c \in Calls : CallChange(c)
    \/ \E newTranscript \in BOOLEAN : Rebind(newTranscript)
    \/ Unmount
    \/ ModalRender
    \/ PauseFires
    \/ CooldownFires
    \/ \E i \in 1..Len(intervals) : TypeTick(i)
    \/ \E i \in 1..Len(intervals), late \in Lates : Commit(i, late)
    \/ Elapse

Spec == Init /\ [][Next]_vars

\* time passes and timers fire when they are due
LiveSpec ==
    /\ Spec
    /\ WF_vars(Elapse)
    /\ WF_vars(ModalRender)
    /\ WF_vars(PauseFires)
    /\ WF_vars(CooldownFires)
    /\ WF_vars(\E i \in 1..Len(intervals) :
                TypeTick(i) \/ \E late \in Lates : Commit(i, late))

\* time passes and typing intervals fire when they are due
TypingSpec ==
    /\ Spec
    /\ WF_vars(Elapse)
    /\ WF_vars(ModalRender)
    /\ WF_vars(\E i \in 1..Len(intervals) :
                TypeTick(i) \/ \E late \in Lates : Commit(i, late))

(* ------------------------------------------------------------ properties *)
TimerOps == {"pause", "tick", "commit", "cooldown"}
\* the last reading of the clock that is followed has been taken
ClockSpent == read /\ now = MaxNow
PlaybackState == <<displayedMessages, messageIndex, currentTypingText,
                   isTyping, typingRole>>
\* the typing intervals the mounted modal has created
Mine == SelectSeq(intervals, Alive)
\* the number of playback timers of the mounted modal
Pending == (IF timeout = NoTimer THEN 0 ELSE 1) + Len(Mine)
\* the step is callback op of a timer the mounted modal has created
Own(op) == last'.op = op /\ last'.gen >= first
IsPrefix(p, s) == Len(p) <= Len(s) /\ p = SubSeq(s, 1, Len(p))
\* the call bound at mount is still bound
FirstBinding == mounted /\ gen = first
Live == call.status = "in_progress"

\* C1: once the call prop has changed, a callback of a timer that was created
\* under an earlier call changes none of displayedMessages, messageIndex,
\* currentTypingText, isTyping, typingRole.
C1_StaleTimerNoOp ==
    [][(mounted /\ last'.op \in TimerOps /\ last'.gen # gen')
        => UNCHANGED PlaybackState]_vars

\* C2: at most one typing interval is running in every state, and a typing
\* tick or a commit happens only while the interval it belongs to is the only
\* one, so that no other message writes currentTypingText or is committed
\* between the start of typing a message and its commit.
C2_OneMessageTyped ==
    /\ [](Len(intervals) <= 1)
    /\ [][(last'.op \in {"tick", "commit"}) => Len(intervals) = 1]_vars

\* C3: after the modal is unmounted no playback timer it created is still
\* scheduled (so none can fire).
C3_NoTimerAfterUnmount ==
    ~mounted => (timeout = NoTimer /\ intervals = << >>)

\* C4: while the call bound at mount is still bound, at most one playback
\* timer of the modal (pause timeout, typing interval or cooldown timeout) is
\* outstanding.
C4_OneTimerOutstanding ==
    FirstBinding => Pending <= 1

\* C4 witness: the second message of the script is being typed and its typing
\* interval is the only timer.
C4_Witness ==
    FirstBinding /\ Live /\ messageIndex = 1 /\ Len(Mine) = 1
        /\ timeout = NoTimer

\* C5: for an in-progress call that stays bound, displayedMessages changes
\* only by a commit, which appends exactly one message and keeps the earlier
\* entries, or by the loop reset, which puts back what was displayed at
\* binding (the transcript without its last message); so its length never
\* decreases between two loop resets.
C5_AppendOnlyUntilReset ==
    [][(FirstBinding /\ FirstBinding' /\ Live)
        => \/ displayedMessages' = displayedMessages
           \/ /\ last'.op = "commit"
              /\ Len(displayedMessages') = Len(displayedMessages) + 1
              /\ SubSeq(displayedMessages', 1, Len(displayedMessages))
                    = displayedMessages
           \/ /\ last'.op = "cooldown"
              /\ displayedMessages' =
                    SubSeq(call.transcript, 1, Len(call.transcript) - 1)
              /\ Len(displayedMessages') <= Len(displayedMessages)]_vars

\* C5 witness: a loop reset has just shortened displayedMessages of a call
\* with two historical messages back to the first of them.
C5_Witness ==
    FirstBinding /\ Live /\ last.op = "cooldown"
        /\ Len(call.transcript) = 2 /\ Len(displayedMessages) = 1

\* the live script of the bound call, written out: its last historical
\* message, when there is one, followed by the continuation
Script ==
    (IF Len(call.transcript) = 0 THEN << >>
     ELSE <<call.transcript[Len(call.transcript)]>>) \o simulatedContinuation
\* what is displayed right after an in-progress call is bound
Seeded == SubSeq(call.transcript, 1, Len(call.transcript) - 1)

\* C6 as stated: with a seed message and a continuation of N messages, the
\* cooldown follows exactly N commits and restores displayedMessages and
\* messageIndex to their values at binding.
C6_ResetAfterNCommits ==
    [][(FirstBinding /\ Live /\ Len(call.transcript) > 0
            /\ last'.op = "cooldown")
        => /\ Len(cycle) = Len(simulatedContinuation)
           /\ displayedMessages' = Seeded
           /\ messageIndex' = 0]_vars

\* C6 amended: with a seed message and a continuation of N messages, the
\* cooldown follows exactly N + 1 commits (the seed is typed first); it leaves
\* displayedMessages, messageIndex, currentTypingText, isTyping and
\* isLiveDemo as they were right after binding, typingRole is the role of
\* the last script message, and the render that follows the cooldown arms
\* the pause timeout of the first script message again.
C6_ResetAfterSeedAndNCommits ==
    /\ [][(FirstBinding /\ Live /\ Len(call.transcript) > 0
                /\ last'.op = "cooldown")
            => /\ Len(cycle) = Len(simulatedContinuation) + 1
               /\ displayedMessages' = Seeded
               /\ messageIndex' = 0
               /\ currentTypingText' = << >>
               /\ isTyping' = FALSE
               /\ isLiveDemo' = TRUE
               /\ intervals' = << >>
               /\ timeout' = NoTimer
               /\ Scheduled'
               /\ typingRole' = Script[Len(Script)].role]_vars
    /\ [][(FirstBinding /\ Live /\ Len(call.transcript) > 0
                /\ last.op = "cooldown" /\ last'.op = "render")
            => /\ timeout'.kind = "pause"
               /\ timeout'.msg = Script[1]
               /\ intervals' = << >>
               /\ UNCHANGED PlaybackState
               /\ displayedMessages' = Seeded
               /\ messageIndex' = 0]_vars

\* C6 witness: the cooldown of a call whose transcript is one ai message has
\* fired.
C6_Witness ==
    FirstBinding /\ gen = 0 /\ Live /\ last.op = "render"
        /\ call.transcript = <<M2>> /\ messageIndex = 0
        /\ timeout.kind = "pause" /\ now > 0

SingleSeed == Live /\ Len(call.transcript) = 1

\* C7 as stated: for a transcript of one seed message A the messages
\* committed in a cycle are exactly the continuation messages, and after each
\* cooldown displayedMessages is [A].
C7_ContinuationOnlyCycle ==
    [][(FirstBinding /\ SingleSeed /\ last'.op = "cooldown")
        => /\ cycle = simulatedContinuation
           /\ displayedMessages' = call.transcript]_vars

\* C7 amended: for a transcript of one seed message A the messages committed
\* in a cycle are exactly A followed by the continuation messages, in script
\* order, and all of them before the cooldown; after each cooldown
\* displayedMessages is empty; and while the call stays bound and timers
\* fire, every state is followed by a cooldown (as far as the clock is
\* followed).
C7_SeedThenContinuationCycle ==
    /\ [][(FirstBinding /\ SingleSeed /\ FirstBinding')
            => /\ IsPrefix(cycle', Script)
               /\ Len(displayedMessages') = Len(cycle')
               /\ \A k \in 1..Len(cycle') :
                    \E ms, at \in 0..MaxNow :
                        displayedMessages'[k] = newMessage(cycle'[k], ms, at)
               /\ last'.op = "cooldown"
                    => (cycle = Script /\ displayedMessages' = << >>)]_vars
    /\ []((FirstBinding /\ SingleSeed)
            => <>(last.op = "cooldown" \/ ~(FirstBinding /\ SingleSeed)
                    \/ ClockSpent))

\* C7 witness: in the second cycle of the call with the single seed M2 the
\* seed has been committed again and is the only message displayed.
C7_Witness ==
    FirstBinding /\ gen = 0 /\ call.transcript = <<M2>> /\ Live
        /\ cycle = <<M2>> /\ Len(displayedMessages) = 1
        /\ typingRole = "ai" /\ last.op = "commit"
        /\ displayedMessages[1].id[3] >= Len(Script)

\* C8: while a completed or missed call is bound, displayedMessages is that
\* call's full transcript.
C8_StaticShowsTranscript ==
    (mounted /\ call.status \in {"completed", "missed"})
        => displayedMessages = call.transcript

\* C9: a modal mounted with a completed or missed call that never changes
\* never types, keeps messageIndex, and has no playback timer scheduled or
\* fired: no render with a run of the playback effect is scheduled, and the
\* only callbacks that run are those of intervals an earlier modal has left
\* behind.
C9_StaticNeverPlays ==
    (FirstBinding /\ call.status \in {"completed", "missed"})
        => /\ isTyping = FALSE
           /\ messageIndex = 0
           /\ timeout = NoTimer
           /\ Mine = << >>
           /\ ~Scheduled
           /\ \/ last.op \in {"mount", "elapse"}
              \/ last.op \in {"tick", "commit"} /\ last.gen < first

\* C9 witness: a missed call with two historical messages is mounted.
C9_Witness ==
    FirstBinding /\ call.status = "missed" /\ call.transcript = <<M1, M2>>
        /\ displayedMessages = <<M1, M2>>

\* C10: while a message of the call bound at mount is typed, currentTypingText
\* is a prefix of its content; typing starts from the empty string, each tick
\* makes it the prefix that is one character longer, and the commit happens
\* when it is the full content.
C10_TypewriterPrefix ==
    /\ []((FirstBinding /\ isTyping)
            => /\ Len(Mine) = 1
               /\ Mine[1].msg = Script[messageIndex + 1]
               /\ IsPrefix(currentTypingText, Script[messageIndex + 1].content))
    /\ [][(FirstBinding /\ mounted' /\ messageIndex < Len(Script))
            => /\ Own("pause") => currentTypingText' = << >>
               /\ Own("tick")
                    => /\ Len(currentTypingText') = Len(currentTypingText) + 1
                       /\ IsPrefix(currentTypingText',
                                   Script[messageIndex + 1].content)
               /\ Own("commit")
                    => currentTypingText = Script[messageIndex + 1].content]_vars

\* C10 witness: the full content of the seed M2 is shown before its commit.
C10_Witness ==
    FirstBinding /\ isTyping /\ typingRole = "ai" /\ messageIndex = 0
        /\ currentTypingText = M2.content /\ Len(currentTypingText) >= 2

\* C11: a typing interval ticks at most once per character of its message:
\* its charIndex never exceeds the length of the content, a tick advances
\* exactly its own charIndex by one, the firing at the end of the content is
\* its commit, which removes it and (while the modal that created it is
\* mounted) appends its message exactly once, and an interval is only ever started by a pause
\* callback, at charIndex 0; while timers fire, a running interval is
\* followed by a commit (as far as the clock is followed).
C11_IntervalTerminates ==
    /\ [](\A i \in 1..Len(intervals) :
            intervals[i].charIndex <= Len(intervals[i].msg.content))
    /\ [][last'.op = "tick"
            => \E i \in 1..Len(intervals) :
                 /\ intervals[i].charIndex < Len(intervals[i].msg.content)
                 /\ intervals' = [intervals EXCEPT
                                    ![i].charIndex = intervals[i].charIndex + 1,
                                    ![i].elapsed = @ + intervals[i].delay]
                 /\ displayedMessages' = displayedMessages]_vars
    /\ [][last'.op = "commit"
            => \E i \in 1..Len(intervals) :
                 /\ intervals[i].charIndex = Len(intervals[i].msg.content)
                 /\ intervals' = SubSeq(intervals, 1, i - 1)
                                    \o SubSeq(intervals, i + 1, Len(intervals))
                 /\ cycle' = IF Alive(intervals[i])
                             THEN Append(cycle, intervals[i].msg)
                             ELSE cycle
                 /\ Len(displayedMessages') =
                        Len(displayedMessages)
                            + (IF Alive(intervals[i]) THEN 1 ELSE 0)]_vars
    /\ [][Len(intervals') > Len(intervals)
            => /\ last'.op = "pause"
               /\ Len(intervals') = Len(intervals) + 1
               /\ SubSeq(intervals', 1, Len(intervals)) = intervals
               /\ intervals'[Len(intervals')].charIndex = 0]_vars
    /\ [](intervals # << >> => <>(last.op = "commit" \/ ClockSpent))

\* C11 witness: the interval of the seed M2 has just committed after one tick
\* per character.
C11_Witness ==
    FirstBinding /\ last.op = "commit" /\ cycle = <<M2>>
        /\ intervals = << >> /\ messageIndex = 1 /\ timeout = NoTimer

\* C12: right after the call prop has changed the playback state is that of
\* a fresh binding of the new call: displayedMessages as for a fresh bind,
\* messageIndex 0, currentTypingText empty, isTyping false.
C12_RebuiltOnChange ==
    (mounted /\ last.op = "change")
        => /\ displayedMessages = (IF Live THEN Seeded ELSE call.transcript)
           /\ messageIndex = 0
           /\ currentTypingText = << >>
           /\ isTyping = FALSE

\* C13: while the in-progress call that was bound at mount stays bound and
\* timers fire, every state is followed by a loop reset (as far as the clock
\* is followed): playback halts in no state; a loop reset empties the cycle,
\* it belongs to a render whose messageIndex was at the end of the script,
\* and for the call bound at mount the cycle it ends has committed the whole
\* live script, in order.
C13_PlaybackNeverHalts ==
    /\ []((FirstBinding /\ Live)
            => <>(last.op = "cooldown" \/ ~(FirstBinding /\ Live)
                    \/ ClockSpent))
    /\ [][last'.op = "cooldown"
            => /\ cycle' = << >>
               /\ effectDeps.messageIndex >= Len(Script)
               /\ FirstBinding => (cycle = Script /\ messageIndex = Len(Script))]_vars

\* C13 witness: the whole script of the call [M1, M2] has been committed in
\* order and the cooldown is pending.
C13_Witness ==
    FirstBinding /\ Live /\ call.transcript = <<M1, M2>>
        /\ cycle = Script /\ timeout.kind = "cooldown"

\* C14: in every state of the mounted modal isTyping is true exactly when a
\* typing interval of the current binding for the message at messageIndex is
\* running.
C14_IsTypingIffInterval ==
    mounted
        => (isTyping <=>
                \E i \in 1..Len(intervals) :
                    /\ intervals[i].gen = gen
                    /\ Live
                    /\ messageIndex < Len(Script)
                    /\ intervals[i].msg = Script[messageIndex + 1])

\* C15: the mounted modal is in live mode exactly when the status of the bound
\* call is in_progress, whatever its transcript and whatever was bound before.
C15_LiveIffInProgress ==
    mounted => (isLiveDemo <=> call.status = "in_progress")

\* C15 witness: a missed call that replaced an in-progress call is static.
C15_Witness ==
    mounted /\ last.op = "change" /\ call.status = "missed"
        /\ isLiveDemo = FALSE /\ intervals # << >>

EmptyLive == FirstBinding /\ Live /\ call.transcript = << >>

\* C16: an in-progress call with an empty transcript starts with nothing
\* displayed, and the first render after the mount leaves the pause of the
\* first continuation message pending; its
\* commits are the continuation messages in order, the cooldown that follows
\* the last of them empties displayedMessages, and the render that follows
\* the cooldown schedules the first continuation message again.
C16_EmptyTranscriptPlays ==
    /\ []((EmptyLive /\ last.op = "mount")
            => /\ displayedMessages = << >>
               /\ messageIndex = 0
               /\ timeout = NoTimer
               /\ Scheduled)
    /\ [][(EmptyLive /\ last.op = "mount" /\ last'.op = "render")
            => /\ displayedMessages' = << >>
               /\ messageIndex' = 0
               /\ timeout'.kind = "pause"
               /\ timeout'.msg.id = <<"sim1">>]_vars
    /\ [](EmptyLive => timeout.kind # "error")
    /\ [][(EmptyLive /\ FirstBinding')
            => /\ IsPrefix(cycle', simulatedContinuation)
               /\ Len(displayedMessages') = Len(cycle')
               /\ \A k \in 1..Len(cycle') :
                    /\ displayedMessages'[k].role = simulatedContinuation[k].role
                    /\ displayedMessages'[k].content
                            = simulatedContinuation[k].content
               /\ last'.op = "cooldown"
                    => /\ cycle = simulatedContinuation
                       /\ displayedMessages' = << >>
                       /\ messageIndex' = 0
                       /\ Scheduled'
               /\ (last.op = "cooldown" /\ last'.op = "render")
                    => /\ displayedMessages' = << >>
                       /\ timeout'.kind = "pause"
                       /\ timeout'.msg.id = <<"sim1">>]_vars

\* C16 witness: both continuation messages of the empty call have been
\* committed, the customer's first.
C16_Witness ==
    EmptyLive /\ Len(displayedMessages) >= 2
        /\ displayedMessages[1].role = "customer"
        /\ displayedMessages[2].role = "ai"
        /\ cycle = SubSeq(simulatedContinuation, 1, 2)

\* C17: the playback effect never reads beyond the live script: no effect run
\* fails, a pending pause is the pause of the script message at the
\* messageIndex of the render the effect ran for, which is inside the script,
\* and a run of the effect in live mode with a cursor at or beyond the end
\* creates the cooldown, which is pending only for such a cursor.
C17_CursorInBounds ==
    /\ [](mounted
            => /\ timeout.kind # "error"
               /\ messageIndex >= 0
               /\ timeout.kind = "pause"
                    => /\ effectDeps.messageIndex < Len(Script)
                       /\ timeout.msg = Script[effectDeps.messageIndex + 1]
               /\ timeout.kind = "cooldown"
                    => effectDeps.messageIndex >= Len(Script))
    /\ [][(mounted' /\ last'.op \in {"change", "render"}
                /\ effectDeps'.isLiveDemo)
            => IF effectDeps'.messageIndex >= Len(Script')
               THEN timeout'.kind = "cooldown"
               ELSE timeout'.kind = "pause"]_vars

\* C17 witness: two overlapping intervals have pushed the cursor beyond the
\* end of the script and the cooldown is pending.
C17_Witness ==
    mounted /\ isLiveDemo /\ messageIndex > Len(Script)
        /\ timeout.kind = "cooldown" /\ last.op = "render"

\* the messages of the transcripts and of the continuation as they were
\* constructed
ScriptMessages ==
    UNION {{t[k] : k \in 1..Len(t)} : t \in Transcripts} \cup
    {simulatedContinuation[k] : k \in 1..ContLen}

\* C19: no timer callback changes the call prop; a message that waits for
\* its pause or is typed is a script message with the id, role, content and
\* timestamp it was constructed with, in every cycle; a commit appends a
\* copy with a new id and timestamp and the role and content of the script
\* message; and no pause, tick or commit changes a message that is displayed
\* already.
C19_ScriptNeverModified ==
    /\ [][last'.op \in TimerOps => call' = call]_vars
    /\ [](/\ timeout.kind = "pause" => timeout.msg \in ScriptMessages
          /\ \A i \in 1..Len(intervals) :
                intervals[i].msg \in ScriptMessages
          /\ \A k \in 1..Len(cycle) : cycle[k] \in ScriptMessages)
    /\ [][(mounted /\ Own("commit"))
            => LET copy == displayedMessages'[Len(displayedMessages')]
                   original == cycle'[Len(cycle')]
               IN  /\ copy.role = original.role
                   /\ copy.content = original.content
                   /\ copy.timestamp = ISOString(now')
                   /\ copy.id = original.id \o <<"-", now>>
                   /\ original \in ScriptMessages]_vars
    /\ [][(mounted /\ last'.op \in {"pause", "tick", "commit"})
            => /\ Len(displayedMessages') >= Len(displayedMessages)
               /\ \A k \in 1..Len(displayedMessages) :
                    displayedMessages'[k] = displayedMessages[k]]_vars

\* C19 witness: after a whole cycle and the loop reset of the call [M1, M2]
\* the seed that is scheduled again is M2 as it is in the transcript.
C19_Witness ==
    FirstBinding /\ gen = 0 /\ now > 0 /\ Live /\ call.transcript = <<M1, M2>>
        /\ last.op = "render" /\ messageIndex = 0 /\ timeout.kind = "pause"
        /\ timeout.msg = M2 /\ M2.timestamp = <<"t2">>
        /\ displayedMessages = <<M1>>

\* C20: right after an in-progress call has been bound again,
\* displayedMessages is what it was when the call was first bound (the
\* transcript without its last message) and messageIndex is 0; and the first
\* message committed after that is the first message of the live script.
C20_RebindRestartsFromSeed ==
    /\ []((mounted /\ Live /\ last.op = "rebind")
            => (displayedMessages = Seeded /\ messageIndex = 0))
    /\ [][(mounted /\ Live /\ binding = "rebind" /\ cycle = << >>
                /\ last'.op = "commit")
            => cycle' = <<Script[1]>>]_vars

\* C18: the ids of the messages in displayedMessages are pairwise distinct,
\* and so are the ids generated within one millisecond; the suffix of a
\* generated id is the reading of the clock at its commit, which no later
\* millisecond returns again, so that no two commits, in one cycle or in
\* two, produce the same id.  (Violated: the interval a call change has left
\* running and the interval of the new binding type the same script message
\* and commit it in the same millisecond.)
C18_DistinctIds ==
    /\ \A j, k \in 1..Len(displayedMessages) :
            j # k => displayedMessages[j].id # displayedMessages[k].id
    /\ \A j, k \in 1..Len(stamped) : j # k => stamped[j] # stamped[k]
    /\ \A k \in 1..Len(stamped) :
            Len(stamped[k]) = 3 /\ stamped[k][3] = now
    /\ \A k \in 1..Len(displayedMessages) :
            Len(displayedMessages[k].id) = 3
                => /\ displayedMessages[k].id[3] <= now
                   /\ displayedMessages[k].id[3] = now
                        => displayedMessages[k].id \in
                                {stamped[j] : j \in 1..Len(stamped)}

\* C21: while the in-progress call bound at mount stays bound, messageIndex is
\* between 0 and the length of the live script, it changes only by +1 at a
\* commit or to 0 at the loop reset, and the loop reset happens only when it
\* equals the length of the live script.
C21_CursorSteps ==
    /\ []((FirstBinding /\ Live)
            => (messageIndex >= 0 /\ messageIndex <= Len(Script)))
    /\ [][(FirstBinding /\ Live /\ FirstBinding')
            => /\ messageIndex' # messageIndex
                    => \/ last'.op = "commit"
                            /\ messageIndex' = messageIndex + 1
                       \/ last'.op = "cooldown" /\ messageIndex' = 0
               /\ Own("commit") => messageIndex' = messageIndex + 1
               /\ last'.op = "cooldown"
                    => (messageIndex = Len(Script) /\ messageIndex' = 0)]_vars

\* C21 witness: the cursor of the call [M2] has reached the end of the script
\* and the cooldown is running.
C21_Witness ==
    FirstBinding /\ Live /\ call.transcript = <<M2>>
        /\ messageIndex = Len(Script) /\ timeout.kind = "cooldown"
        /\ last.op = "elapse"

\* C22: a commit of the call bound at mount appends one message, which has the
\* role and the content of the live-script message at messageIndex, the
\* timestamp of the commit, which no displayed message has, and the id of the
\* script message followed by a suffix; the same step empties
\* currentTypingText, sets isTyping to false and adds 1 to messageIndex.
C22_CommitAppendsScriptMessage ==
    [][(FirstBinding /\ Live /\ Own("commit"))
        => /\ messageIndex < Len(Script)
           /\ Len(displayedMessages') = Len(displayedMessages) + 1
           /\ SubSeq(displayedMessages', 1, Len(displayedMessages))
                = displayedMessages
           /\ LET appended == displayedMessages'[Len(displayedMessages')]
                  original == Script[messageIndex + 1]
              IN  /\ appended.role = original.role
                  /\ appended.content = original.content
                  /\ appended.timestamp = ISOString(now')
                  /\ appended.timestamp # original.timestamp
                  /\ \A k \in 1..Len(displayedMessages) :
                        displayedMessages[k].timestamp # appended.timestamp
                  /\ Len(appended.id) > Len(original.id)
                  /\ SubSeq(appended.id, 1, Len(original.id)) = original.id
           /\ currentTypingText' = << >>
           /\ isTyping' = FALSE
           /\ messageIndex' = messageIndex + 1]_vars

\* C22 witness: the first continuation message of the call [M1, M2] has just
\* been committed behind M1 and the copy of M2.
C22_Witness ==
    FirstBinding /\ Live /\ call.transcript = <<M1, M2>>
        /\ last.op = "commit" /\ messageIndex = 2
        /\ Len(displayedMessages) = 3
        /\ displayedMessages[3].role = "customer"
        /\ isTyping = FALSE

\* C23: the pause callback sets typingRole to the role of its message, empties
\* currentTypingText and sets isTyping; while the call bound at mount is typed,
\* typingRole is the role of the live-script message at messageIndex.
C23_PauseStartsTyping ==
    /\ [][(mounted /\ last'.op = "pause")
            => /\ timeout.kind = "pause"
               /\ typingRole' = timeout.msg.role
               /\ currentTypingText' = << >>
               /\ isTyping' = TRUE]_vars
    /\ []((FirstBinding /\ isTyping)
            => /\ Live
               /\ messageIndex < Len(Script)
               /\ typingRole = Script[messageIndex + 1].role)

\* C23 witness: the pause of the first continuation message, a customer's,
\* has just ended behind the seed M2.
C23_Witness ==
    FirstBinding /\ Live /\ call.transcript = <<M2>> /\ last.op = "pause"
        /\ isTyping /\ typingRole = "customer" /\ messageIndex = 1
        /\ currentTypingText = << >>

\* C24: when another call is bound or the modal is unmounted while no typing
\* interval is running, the pending pause or cooldown timeout is cleared: the
\* only timeout afterwards is the one the playback effect creates for the new
\* call, armed in that step, and after the unmount no timer is left; a
\* timeout that is pending always is the one the last run of the playback
\* effect created for the bound call; once the scheduled render has run, the
\* pending timeout is the one of the current messageIndex; and a timeout
\* callback that runs is the callback of that pending timeout, armed in an
\* earlier millisecond.
C24_PendingTimeoutCancelled ==
    /\ [][(mounted /\ intervals = << >> /\ last'.op = "change")
            => /\ timeout' = PlaybackEffect(effectDeps'.isLiveDemo,
                                            effectDeps'.messageIndex,
                                            call'.transcript)
               /\ armed' = SetTimeout(<< >>, timeout')
               /\ \A k \in DOMAIN armed' : armed'[k].fresh]_vars
    /\ [][(mounted /\ intervals = << >> /\ last'.op = "unmount")
            => (timeout' = NoTimer /\ armed' = << >>)]_vars
    /\ []((mounted /\ timeout # NoTimer)
            => timeout = PlaybackEffect(effectDeps.isLiveDemo,
                                        effectDeps.messageIndex,
                                        call.transcript))
    /\ []((mounted /\ timeout # NoTimer /\ ~Scheduled)
            => timeout = PlaybackEffect(isLiveDemo, messageIndex,
                                        call.transcript))
    /\ [][last'.op \in {"pause", "cooldown"}
            => /\ timeout = PlaybackEffect(effectDeps.isLiveDemo,
                                           effectDeps.messageIndex,
                                           call.transcript)
               /\ timeout.kind = last'.op
               /\ \E k \in DOMAIN armed :
                    armed[k].key = 0 /\ ~armed[k].fresh]_vars
    /\ [](~mounted
            => (timeout = NoTimer /\ \A k \in DOMAIN armed : armed[k].key # 0))
    /\ [](Cardinality({k \in DOMAIN armed : armed[k].key = 0}) <= 1)

\* C24 witness: an in-progress call was replaced by another in-progress call
\* while its cooldown was pending and no interval was running: the cleanup
\* has cleared the cooldown, and the timeout of the new call, armed in this
\* step, is the only timer.
C24_Witness ==
    mounted /\ last.op = "change" /\ Live /\ intervals = << >>
        /\ cleanup.kind = "cooldown" /\ timeout # NoTimer
        /\ Len(armed) = 1 /\ armed[1].fresh

\* C25: while the in-progress call bound at mount stays bound,
\* displayedMessages is, by role and content, the transcript without its last
\* message followed by the first messageIndex messages of the live script
\* (the last transcript message, then the continuation).
C25_DisplayedIsSeedPlusTyped ==
    (FirstBinding /\ Live)
        => /\ messageIndex <= Len(Script)
           /\ Len(displayedMessages) = Len(Seeded) + messageIndex
           /\ \A k \in 1..Len(Seeded) :
                /\ displayedMessages[k].role = Seeded[k].role
                /\ displayedMessages[k].content = Seeded[k].content
           /\ \A k \in 1..messageIndex :
                /\ displayedMessages[Len(Seeded) + k].role = Script[k].role
                /\ displayedMessages[Len(Seeded) + k].content
                        = Script[k].content

\* C25 witness: the call [M1, M2] shows M1 and the typed copy of M2 while the
\* first continuation message waits.
C25_Witness ==
    FirstBinding /\ Live /\ call.transcript = <<M1, M2>>
        /\ messageIndex = 1 /\ Len(displayedMessages) = 2
        /\ displayedMessages[1] = M1
        /\ displayedMessages[2].content = M2.content
        /\ displayedMessages[2].id # M2.id
        /\ timeout.kind = "pause"

\* the pause and the tick of a role, in milliseconds
PauseMs(role) == IF role = "ai" THEN 800 ELSE 1500
TickMs(role) == IF role = "ai" THEN 30 ELSE 50

\* C26: the pause and the tick depend on the role of the message only (800 ms
\* and 30 ms for ai, 1500 ms and 50 ms for customer), the cooldown is 3000 ms,
\* and the delays that pass between the start of the pause of a message of L
\* characters and its commit add up to pause + (L + 1) * tick, the buffer of
\* the bound call showing the full content when the commit fires.
C26_RoleCadence ==
    /\ TickMs("ai") < TickMs("customer")
    /\ [](timeout.kind = "pause"
            => timeout.delay = PauseMs(timeout.msg.role))
    /\ [](timeout.kind = "cooldown" => timeout.delay = 3000)
    /\ [](\A i \in 1..Len(intervals) :
            /\ intervals[i].delay = TickMs(intervals[i].msg.role)
            /\ intervals[i].elapsed =
                    PauseMs(intervals[i].msg.role)
                        + intervals[i].charIndex * TickMs(intervals[i].msg.role))
    /\ [][last'.op = "commit"
            => \E i \in 1..Len(intervals) :
                 LET iv == intervals[i]
                     L == Len(iv.msg.content)
                 IN  /\ intervals' = SubSeq(intervals, 1, i - 1)
                                \o SubSeq(intervals, i + 1, Len(intervals))
                     /\ iv.charIndex = L
                     /\ iv.elapsed + iv.delay =
                            PauseMs(iv.msg.role) + (L + 1) * TickMs(iv.msg.role)
                     /\ (FirstBinding /\ Alive(iv))
                            => currentTypingText = iv.msg.content]_vars

\* C26 witness: a customer's message of two characters has been committed
\* behind the seed M2.
C26_Witness ==
    FirstBinding /\ Live /\ call.transcript = <<M2>> /\ last.op = "commit"
        /\ Len(cycle) = 2 /\ cycle[2].role = "customer"
        /\ Len(cycle[2].content) = 2

(* ======================================================================= *)
(* The Login and ForgotPassword pages (pages/Login/index.tsx,              *)
(* pages/ForgotPassword): the phone field, the steps of the reset flow,    *)
(* the calls of sendVerificationCode, the resend countdown and the two     *)
(* submit handlers of Login.                                               *)
(* ======================================================================= *)
\* setCountdown(60)
CountdownStart == 60
\* the delay of the countdown timeout
CountdownDelay == 1000

Digit == {"0", "1", "2", "3", "4", "5", "6", "7", "8", "9"}
Repeat(ch, n) == [k \in 1..n |-> ch]

\* value.replace(/\D/g, '')
DigitsOf(value) == SelectSeq(value, LAMBDA ch : ch \in Digit)

\* handlePhoneChange: the digits of the input, ten at most
handlePhoneChange(value) == Slice(DigitsOf(value), 0, 10)

\* Login.handleCodeChange: the digits of the input, six at most
handleCodeChange(value) == Slice(DigitsOf(value), 0, 6)

\* what is typed into the code field of Login
CodeInputs == { <<"1", "2", "3", "4", "5", "6", "7">>, <<"0", "x">> }

\* what is typed into the fields of the account tab
Usernames == {"demo", "guest"}
LoginPasswords == {"demo123", "demo"}

\* AuthContext.login: the mock accepts demo / demo123
login(u, pw) == u = "demo" /\ pw = "demo123"

\* AuthContext.loginWithPhone: the mock accepts a ten-digit phone number with
\* the code 123456
loginWithPhone(p, c) ==
    Len(p) = 10 /\ c = <<"1", "2", "3", "4", "5", "6">>

\* what is typed into the phone field
PhoneInputs == { <<"5", "-", "5">>, Repeat("5", 11) }

\* otp.join('')
OtpCode(o) == SelectSeq(o, LAMBDA d : d # "")

\* handleOtpChange(index, value): a paste fills the fields from index on, a
\* single character replaces the field
handleOtpChange(o, index, value) ==
    IF Len(value) > 1
    THEN LET digits == Slice(DigitsOf(value), 0, 6)
         IN  [k \in 1..6 |->
                IF k - 1 >= index /\ k - 1 - index < Len(digits)
                THEN digits[k - index] ELSE o[k]]
    ELSE LET digit == DigitsOf(value)
         IN  [o EXCEPT ![index + 1] = IF digit = << >> THEN "" ELSE digit[1]]

\* what is typed or pasted into the code fields: <<index, value>>
OtpInputs ==
    { <<0, <<"1", "2", "3", "4", "5", "6">>>>,
      <<0, <<"6", "5", "4", "3", "2", "1">>>>,
      <<5, <<"x">>>> }

\* what is typed into the two password fields
Passwords == { Repeat("a", 7), Repeat("a", 8), Repeat("b", 8) }

\* AuthContext.sendVerificationCode: the mock resolves to true
sendVerificationCode(p) == TRUE

\* AuthContext.resetPassword: the mock accepts the code 123456
resetPassword(p, c, newPassword) == c = <<"1", "2", "3", "4", "5", "6">>

\* useEffect(..., [countdown]) after a render with a new countdown: the
\* cleanup clears the timeout that the run for the old countdown armed, and
\* the run for a positive countdown arms one
CountdownEffect(pending, old, new) ==
    IF new = old THEN pending
    ELSE LET cleared == SelectSeq(pending, LAMBDA t : t.countdown # old)
         IN  IF new <= 0 THEN cleared
             ELSE Append(cleared,
                         [countdown |-> new, delay |-> CountdownDelay])

\* a page right after it was mounted
PageMounted(p) ==
    /\ page = p
    /\ activeTab = "phone"
    /\ step = 1
    /\ phone = << >>
    /\ otp = [k \in 1..6 |-> ""]
    /\ countdown = 0
    /\ loading = FALSE
    /\ codeSending = FALSE
    /\ formError = ""
    /\ sending = << >>
    /\ timers = << >>
    /\ rendered = 0
    /\ scheduled = FALSE
    /\ code = << >>
    /\ username = ""
    /\ password = ""
    /\ done = "mount"

AuthInit ==
    /\ \E p \in {"login", "forgot"} : PageMounted(p)
    /\ NoModal
    /\ NoRecords
    /\ NoAudio

\* the handlers of input events are the ones of the last render and the
\* page shows its state; an input event is taken once the scheduled render has
\* run (~scheduled)

\* handlePhoneChange on the phone field of step 1 or of the phone tab
PhoneInput(value) ==
    /\ ~scheduled
    /\ \/ page = "forgot" /\ step = 1
       \/ page = "login" /\ activeTab = "phone"
    /\ phone' = handlePhoneChange(value)
    /\ phone' # phone
    /\ done' = "phone"
    /\ UNCHANGED <<page, activeTab, step, otp, countdown, loading,
                   codeSending, formError, sending, timers>>
    /\ UNCHANGED loginFields
    /\ UNCHANGED renderVars
    /\ UNCHANGED besidePage

\* handleStep1Next up to its await; the button is disabled while loading and
\* while the phone number is not complete
Step1Next ==
    /\ ~scheduled
    /\ page = "forgot" /\ step = 1
    /\ ~(loading \/ Len(phone) # 10)
    /\ IF Len(phone) # 10
       THEN /\ formError' = "invalidPhone"
            /\ UNCHANGED <<loading, sending>>
       ELSE /\ loading' = TRUE
            /\ formError' = ""
            /\ sending' = Append(sending,
                                 [by |-> "step1", countdown |-> countdown])
    /\ done' = "send"
    /\ UNCHANGED <<page, activeTab, step, phone, otp, countdown, codeSending,
                   timers>>
    /\ UNCHANGED loginFields
    /\ UNCHANGED renderVars
    /\ UNCHANGED besidePage

\* handleResendCode up to its await; the button is rendered while the
\* countdown is not positive and is disabled while loading
ResendCode ==
    /\ ~scheduled
    /\ page = "forgot" /\ step = 2
    /\ ~(countdown > 0)
    /\ ~loading
    /\ IF countdown > 0
       THEN UNCHANGED <<loading, sending>>
       ELSE /\ loading' = TRUE
            /\ sending' = Append(sending,
                                 [by |-> "resend", countdown |-> countdown])
    /\ done' = "send"
    /\ UNCHANGED <<page, activeTab, step, phone, otp, countdown, codeSending,
                   formError, timers>>
    /\ UNCHANGED loginFields
    /\ UNCHANGED renderVars
    /\ UNCHANGED besidePage

\* Login.handleSendCode up to its await; the button is disabled during the
\* countdown, while a code is being sent and while the phone number is not
\* complete
SendCode ==
    /\ ~scheduled
    /\ page = "login" /\ activeTab = "phone"
    /\ ~(countdown > 0 \/ codeSending \/ Len(phone) # 10)
    /\ IF Len(phone) # 10
       THEN /\ formError' = "invalidPhone"
            /\ UNCHANGED <<codeSending, sending>>
       ELSE /\ codeSending' = TRUE
            /\ formError' = ""
            /\ sending' = Append(sending,
                                 [by |-> "login", countdown |-> countdown])
    /\ done' = "send"
    /\ UNCHANGED <<page, activeTab, step, phone, otp, countdown, loading,
                   timers>>
    /\ UNCHANGED loginFields
    /\ UNCHANGED renderVars
    /\ UNCHANGED besidePage

\* the oldest call of sendVerificationCode resolves and its handler goes on
\* behind the await: it sets state, and the render with the countdown effect
\* follows in a later task; the setters of an unmounted page do nothing
SendResolves ==
    /\ sending # << >>
    /\ sending' = Tail(sending)
    /\ done' = "sent"
    /\ LET by == Head(sending).by
           success == sendVerificationCode(phone)
       IN  IF page = "none"
           THEN UNCHANGED <<step, countdown, loading, codeSending, scheduled>>
           ELSE /\ loading' = IF by = "login" THEN loading ELSE FALSE
                /\ codeSending' = IF by = "login" THEN FALSE ELSE codeSending
                /\ countdown' = IF success THEN CountdownStart ELSE countdown
                /\ step' = IF success /\ by = "step1" THEN 2 ELSE step
                /\ scheduled' = TRUE
    /\ UNCHANGED <<page, activeTab, phone, otp, formError, timers, rendered>>
    /\ UNCHANGED loginFields
    /\ UNCHANGED besidePage

\* the callback of a countdown timeout: setCountdown(c => c - 1); the render
\* with the countdown effect follows in a later task
CountdownTick(i) ==
    /\ i \in 1..Len(timers)
    /\ countdown' = countdown - 1
    /\ timers' = SubSeq(timers, 1, i - 1) \o SubSeq(timers, i + 1, Len(timers))
    /\ scheduled' = TRUE
    /\ done' = "tick"
    /\ UNCHANGED <<page, activeTab, step, phone, otp, loading, codeSending,
                   formError, sending, rendered>>
    /\ UNCHANGED loginFields
    /\ UNCHANGED besidePage

\* the render that follows the callbacks of timeouts: the updates of all the
\* callbacks that ran since the last render are applied together, and the
\* countdown effect runs when the countdown differs from the one of the last
\* render
PageRender ==
    /\ page # "none"
    /\ scheduled
    /\ scheduled' = FALSE
    /\ rendered' = countdown
    /\ timers' = CountdownEffect(timers, rendered, countdown)
    /\ done' = "render"
    /\ UNCHANGED <<page, activeTab, step, phone, otp, countdown, loading,
                   codeSending, formError, sending>>
    /\ UNCHANGED loginFields
    /\ UNCHANGED besidePage

\* handleOtpChange on a code field of step 2
OtpInput(in) ==
    /\ ~scheduled
    /\ page = "forgot" /\ step = 2
    /\ otp' = handleOtpChange(otp, in[1], in[2])
    /\ otp' # otp
    /\ done' = "otp"
    /\ UNCHANGED <<page, activeTab, step, phone, countdown, loading,
                   codeSending, formError, sending, timers>>
    /\ UNCHANGED loginFields
    /\ UNCHANGED renderVars
    /\ UNCHANGED besidePage

\* the Previous button of step 2: setStep(1)
Step2Previous ==
    /\ ~scheduled
    /\ page = "forgot" /\ step = 2
    /\ step' = 1
    /\ done' = "previous"
    /\ UNCHANGED <<page, activeTab, phone, otp, countdown, loading,
                   codeSending, formError, sending, timers>>
    /\ UNCHANGED loginFields
    /\ UNCHANGED renderVars
    /\ UNCHANGED besidePage

\* handleStep2Next; the button is disabled while the code is not complete
Step2Next ==
    /\ ~scheduled
    /\ page = "forgot" /\ step = 2
    /\ ~(Len(OtpCode(otp)) # 6)
    /\ IF Len(OtpCode(otp)) # 6
       THEN formError' = "invalidCode" /\ step' = step
       ELSE formError' = "" /\ step' = 3
    /\ done' = "next"
    /\ UNCHANGED <<page, activeTab, phone, otp, countdown, loading,
                   codeSending, sending, timers>>
    /\ UNCHANGED loginFields
    /\ UNCHANGED renderVars
    /\ UNCHANGED besidePage

\* the Previous button of step 3: setStep(2)
Step3Previous ==
    /\ ~scheduled
    /\ page = "forgot" /\ step = 3
    /\ step' = 2
    /\ done' = "previous"
    /\ UNCHANGED <<page, activeTab, phone, otp, countdown, loading,
                   codeSending, formError, sending, timers>>
    /\ UNCHANGED loginFields
    /\ UNCHANGED renderVars
    /\ UNCHANGED besidePage

\* handleStep3Submit, with the resolution of resetPassword that follows it in
\* the same task; the button is disabled while loading and while the two
\* passwords are too short or differ
Step3Submit(newPassword, confirmPassword) ==
    /\ ~scheduled
    /\ page = "forgot" /\ step = 3
    /\ ~(loading \/ Len(newPassword) < 8 \/ newPassword # confirmPassword)
    /\ IF Len(newPassword) < 8
       THEN formError' = "passwordTooShort" /\ step' = step
       ELSE IF newPassword # confirmPassword
       THEN formError' = "passwordMismatch" /\ step' = step
       ELSE IF resetPassword(phone, OtpCode(otp), newPassword)
       THEN formError' = "" /\ step' = 4
       ELSE formError' = "invalidCode" /\ step' = step
    /\ done' = "submit"
    /\ UNCHANGED <<page, activeTab, phone, otp, countdown, loading,
                   codeSending, sending, timers>>
    /\ UNCHANGED loginFields
    /\ UNCHANGED renderVars
    /\ UNCHANGED besidePage

\* Login.handleCodeChange on the code field of the phone tab
CodeInput(value) ==
    /\ ~scheduled
    /\ page = "login" /\ activeTab = "phone"
    /\ code' = handleCodeChange(value)
    /\ code' # code
    /\ done' = "code"
    /\ UNCHANGED <<page, activeTab, step, phone, otp, countdown, loading,
                   codeSending, formError, sending, timers, username,
                   password>>
    /\ UNCHANGED renderVars
    /\ UNCHANGED besidePage

\* setUsername(e.target.value) on the account tab
UsernameInput(value) ==
    /\ ~scheduled
    /\ page = "login" /\ activeTab = "account"
    /\ username' = value
    /\ username' # username
    /\ done' = "username"
    /\ UNCHANGED <<page, activeTab, step, phone, otp, countdown, loading,
                   codeSending, formError, sending, timers, code, password>>
    /\ UNCHANGED renderVars
    /\ UNCHANGED besidePage

\* setPassword(e.target.value) on the account tab
PasswordInput(value) ==
    /\ ~scheduled
    /\ page = "login" /\ activeTab = "account"
    /\ password' = value
    /\ password' # password
    /\ done' = "password"
    /\ UNCHANGED <<page, activeTab, step, phone, otp, countdown, loading,
                   codeSending, formError, sending, timers, code, username>>
    /\ UNCHANGED renderVars
    /\ UNCHANGED besidePage

\* the page after navigate('/'): Login is unmounted, the cleanup of the
\* countdown effect clears its timeout and the state of the page is gone;
\* the calls of sendVerificationCode that have not resolved stay
LoggedIn ==
    /\ page' = "none"
    /\ activeTab' = "phone"
    /\ phone' = << >>
    /\ code' = << >>
    /\ username' = ""
    /\ password' = ""
    /\ countdown' = 0
    /\ codeSending' = FALSE
    /\ formError' = ""
    /\ timers' = CountdownEffect(timers, rendered, 0)
    /\ rendered' = 0
    /\ scheduled' = FALSE

\* Login.handlePhoneLogin, with the resolution of loginWithPhone that follows
\* it in the same task (setLoading(true) ... setLoading(false)); the form is
\* submitted when its two required fields are filled, and the button is
\* disabled while loading
PhoneLogin ==
    /\ ~scheduled
    /\ page = "login" /\ activeTab = "phone"
    /\ phone # << >> /\ code # << >>
    /\ ~loading
    /\ IF Len(phone) # 10
       THEN /\ formError' = "invalidPhone"
            /\ UNCHANGED <<page, activeTab, phone, countdown, codeSending,
                           timers, renderVars, loginFields>>
       ELSE IF loginWithPhone(phone, code)
       THEN LoggedIn
       ELSE /\ formError' = "phoneLoginFailed"
            /\ UNCHANGED <<page, activeTab, phone, countdown, codeSending,
                           timers, renderVars, loginFields>>
    /\ done' = "login"
    /\ UNCHANGED <<step, otp, loading, sending>>
    /\ UNCHANGED besidePage

\* Login.handleAccountLogin, with the resolution of login that follows it in
\* the same task; the form is submitted when its two required fields are
\* filled, and the button is disabled while loading
AccountLogin ==
    /\ ~scheduled
    /\ page = "login" /\ activeTab = "account"
    /\ username # "" /\ password # ""
    /\ ~loading
    /\ IF login(username, password)
       THEN LoggedIn
       ELSE /\ formError' = "loginFailed"
            /\ UNCHANGED <<page, activeTab, phone, countdown, codeSending,
                           timers, renderVars, loginFields>>
    /\ done' = "login"
    /\ UNCHANGED <<step, otp, loading, sending>>
    /\ UNCHANGED besidePage

\* Login.handleTabSwitch; both tab buttons can be clicked at any time
TabSwitch(tab) ==
    /\ ~scheduled
    /\ page = "login"
    /\ activeTab' = tab
    /\ formError' = ""
    /\ phone' = << >>
    /\ code' = << >>
    /\ username' = ""
    /\ password' = ""
    /\ done' = "tab"
    /\ UNCHANGED <<page, step, otp, countdown, loading, codeSending, sending,
                   timers>>
    /\ UNCHANGED renderVars
    /\ UNCHANGED besidePage

\* the router leaves the page: the cleanup of the countdown effect clears its
\* timeout and the state of the page is gone; the calls that have not
\* resolved stay
Leave ==
    /\ page # "none"
    /\ page' = "none"
    /\ activeTab' = "phone"
    /\ step' = 1
    /\ phone' = << >>
    /\ otp' = [k \in 1..6 |-> ""]
    /\ countdown' = 0
    /\ loading' = FALSE
    /\ codeSending' = FALSE
    /\ formError' = ""
    /\ timers' = CountdownEffect(timers, rendered, 0)
    /\ rendered' = 0
    /\ scheduled' = FALSE
    /\ code' = << >>
    /\ username' = ""
    /\ password' = ""
    /\ done' = "leave"
    /\ UNCHANGED sending
    /\ UNCHANGED besidePage

AuthNext ==
    \/ \E value \in PhoneInputs : PhoneInput(value)
    \/ Step1Next
    \/ ResendCode
    \/ SendCode
    \/ SendResolves
    \/ \E i \in 1..Len(timers) : CountdownTick(i)
    \/ PageRender
    \/ \E in \in OtpInputs : OtpInput(in)
    \/ Step2Previous
    \/ Step2Next
    \/ Step3Previous
    \/ \E newPassword, confirmPassword \in Passwords :
            Step3Submit(newPassword, confirmPassword)
    \/ \E value \in CodeInputs : CodeInput(value)
    \/ \E value \in Usernames : UsernameInput(value)
    \/ \E value \in LoginPasswords : PasswordInput(value)
    \/ PhoneLogin
    \/ AccountLogin
    \/ \E tab \in {"phone", "account"} : TabSwitch(tab)
    \/ Leave

AuthSpec == AuthInit /\ [][AuthNext]_vars

\* C27: in the forgot-password flow every call of sendVerificationCode is made
\* while the countdown is 0.
C27_NoSendDuringCountdown ==
    \A k \in 1..Len(sending) :
        sending[k].by \in {"step1", "resend"} => sending[k].countdown = 0

\* C30: the countdown is between 0 and 60; while the page is mounted it
\* changes only by a successful send, which happens at 0 and sets 60, and by
\* the callback of its timeout, which takes 1 from a positive countdown; the
\* timeout has a delay of one second, and once the page is rendered one is
\* armed exactly while the countdown is positive.
C30_CountdownRunsDown ==
    /\ [](countdown \in 0..CountdownStart)
    /\ [](Len(timers) <= 1)
    /\ [](page # "none" /\ ~scheduled
            => /\ countdown > 0 <=> Len(timers) = 1
               /\ \A k \in 1..Len(timers) :
                    timers[k] = [countdown |-> countdown, delay |-> 1000])
    /\ [][(page' # "none" /\ done' = "sent") => countdown' = 60]_vars
    /\ [][(page' # "none" /\ countdown' # countdown)
            => \/ done' = "sent" /\ countdown = 0 /\ countdown' = 60
               \/ done' = "tick" /\ countdown > 0
                    /\ countdown' = countdown - 1]_vars

(* ======================================================================= *)
(* The CallRecords page (pages/CallRecords/index.tsx): the filters and the *)
(* pagination of the list.  A record keeps its id, callerPhone, status and *)
(* startTime; a startTime is written as the digit of its day followed by   *)
(* the digit of its hour.                                                   *)
(* ======================================================================= *)
\* the largest number of call records
MaxRecords == 21
pageSize == 10

DigitChar == <<"0", "1", "2", "3", "4", "5", "6", "7", "8", "9">>

\* new Date(startTime).getTime(), in hours
GetTime(startTime) ==
    LET val(ch) == (CHOOSE k \in 1..10 : DigitChar[k] = ch) - 1
    IN  24 * val(startTime[1]) + val(startTime[2])

\* String.prototype.toLowerCase
ToLowerCase(str) ==
    [k \in 1..Len(str) |->
        CASE str[k] = "C" -> "c"
          [] str[k] = "A" -> "a"
          [] str[k] = "B" -> "b"
          [] OTHER -> str[k]]

\* String.prototype.includes
Includes(str, sub) ==
    \E i \in 0..(Len(str) - Len(sub)) : SubSeq(str, i + 1, i + Len(sub)) = sub

\* String.prototype.startsWith
StartsWith(str, prefix) ==
    Len(prefix) <= Len(str) /\ SubSeq(str, 1, Len(prefix)) = prefix

\* Math.ceil(a / b) for a >= 0 and b > 0
Ceil(a, b) == (a + b - 1) \div b

\* the k-th record of the mock data
Record(k) ==
    [id |-> <<"C", IF k % 2 = 0 THEN "A" ELSE "B">>,
     callerPhone |-> <<"5", "5", DigitChar[(k % 2) + 2]>>,
     status |-> IF k % 3 = 0 THEN "completed"
                ELSE IF k % 3 = 1 THEN "missed" ELSE "in_progress",
     startTime |-> <<DigitChar[(k % 2) + 2], DigitChar[(k % 5) + 1]>>]

\* the list with x inserted in front of the first record that started earlier
RECURSIVE InsertByTime(_, _)
InsertByTime(list, x) ==
    IF list = << >> THEN <<x>>
    ELSE IF GetTime(Head(list).startTime) - GetTime(x.startTime) < 0
    THEN <<x>> \o list
    ELSE <<Head(list)>> \o InsertByTime(Tail(list), x)

\* [...mockCallRecords].sort((a, b) => time(b) - time(a)): newest first, and
\* records of the same time in their order in the data
RECURSIVE sortedCalls(_)
sortedCalls(list) ==
    IF list = << >> THEN << >>
    ELSE InsertByTime(sortedCalls(SubSeq(list, 1, Len(list) - 1)),
                      list[Len(list)])

filteredCalls(list, term, status, date) ==
    SelectSeq(sortedCalls(list),
              LAMBDA c :
                LET matchesSearch ==
                        \/ Includes(c.callerPhone, term)
                        \/ Includes(ToLowerCase(c.id), ToLowerCase(term))
                    matchesStatus == status = "all" \/ c.status = status
                    matchesDate == date = << >> \/ StartsWith(c.startTime, date)
                IN  matchesSearch /\ matchesStatus /\ matchesDate)

paginatedCalls(filtered, p) ==
    LET start == (p - 1) * pageSize
    IN  Slice(filtered, start, start + pageSize)

totalPages(filtered) == Ceil(Len(filtered), pageSize)

Filtered == filteredCalls(records, searchTerm, statusFilter, dateFilter)

\* what is typed into the search field and chosen in the two filters
SearchTerms == { << >>, <<"c", "A">>, <<"5", "2">> }
StatusFilters == {"all"} \cup Statuses
DateFilters == { << >>, <<"2">>, <<"3">> }

RecordsInit ==
    /\ \E n \in 0..MaxRecords : records = [k \in 1..n |-> Record(k)]
    /\ searchTerm = << >>
    /\ statusFilter = "all"
    /\ dateFilter = << >>
    /\ currentPage = 1
    /\ NoModal
    /\ NoPage
    /\ NoAudio

\* onChange of the search field: setSearchTerm(e.target.value)
SearchChange(term) ==
    /\ term # searchTerm
    /\ searchTerm' = term
    /\ UNCHANGED <<records, statusFilter, dateFilter, currentPage>>
    /\ UNCHANGED besideRecords

\* onChange of the status filter: setStatusFilter(e.target.value)
StatusChange(status) ==
    /\ status # statusFilter
    /\ statusFilter' = status
    /\ UNCHANGED <<records, searchTerm, dateFilter, currentPage>>
    /\ UNCHANGED besideRecords

\* onChange of the date filter: setDateFilter(e.target.value)
DateChange(date) ==
    /\ date # dateFilter
    /\ dateFilter' = date
    /\ UNCHANGED <<records, searchTerm, statusFilter, currentPage>>
    /\ UNCHANGED besideRecords

\* the Reset button
ResetFilters ==
    /\ <<searchTerm, statusFilter, dateFilter>> # <<<< >>, "all", << >>>>
    /\ searchTerm' = << >>
    /\ statusFilter' = "all"
    /\ dateFilter' = << >>
    /\ UNCHANGED <<records, currentPage>>
    /\ UNCHANGED besideRecords

\* the left button of the pagination, which is rendered when there is more
\* than one page and disabled on page 1
PreviousPage ==
    /\ totalPages(Filtered) > 1
    /\ ~(currentPage = 1)
    /\ currentPage' = Max(1, currentPage - 1)
    /\ UNCHANGED <<records, searchTerm, statusFilter, dateFilter>>
    /\ UNCHANGED besideRecords

\* the right button of the pagination, disabled on the last page
NextPage ==
    /\ totalPages(Filtered) > 1
    /\ ~(currentPage = totalPages(Filtered))
    /\ currentPage' = Min(totalPages(Filtered), currentPage + 1)
    /\ UNCHANGED <<records, searchTerm, statusFilter, dateFilter>>
    /\ UNCHANGED besideRecords

RecordsNext ==
    \/ \E term \in SearchTerms : SearchChange(term)
    \/ \E status \in StatusFilters : StatusChange(status)
    \/ \E date \in DateFilters : DateChange(date)
    \/ ResetFilters
    \/ PreviousPage
    \/ NextPage

RecordsSpec == RecordsInit /\ [][RecordsNext]_vars

\* C28: currentPage is between 1 and max(1, totalPages), and the displayed
\* page is not empty when the filtered list is not empty.
C28_PageInRange ==
    /\ currentPage >= 1
    /\ currentPage <= Max(1, totalPages(Filtered))
    /\ Filtered # << >> => paginatedCalls(Filtered, currentPage) # << >>

(* ======================================================================= *)
(* The useAudioPlayer hook (hooks/useAudioPlayer.ts) of one component,     *)
(* from its mount until after its unmount.  The Audio elements are         *)
(* numbered in the order of their creation.  An element keeps loading and  *)
(* dispatching events after the hook has dropped it; pause() rejects the   *)
(* promises of play() that are pending on its element.                     *)
(* ======================================================================= *)
\* the largest number of Audio elements
MaxAudios == 2
\* the largest number of promises of play() that are pending
MaxPlays == 2

Urls == {"a.mp3", "b.mp3"}
\* audio.duration and audio.currentTime, in seconds
Durations == {5}
Times == {0, 3}

\* the state the effect sets when it runs for a url
EffectReset ==
    /\ isPlaying' = FALSE
    /\ currentTime' = 0
    /\ duration' = 0
    /\ error' = "null"
    /\ isLoading' = isLoading

\* the promises of element e that wait for it to load are now to settle as to
Settle(pending, e, to) ==
    [k \in 1..Len(pending) |->
        IF pending[k].audio = e /\ pending[k].settle = "wait"
        THEN [pending[k] EXCEPT !.settle = to]
        ELSE pending[k]]

\* audio.pause() on element e: the promises of play() that wait for e to load
\* will be rejected; the promise of a play() on a loaded element is already on
\* its way to fulfilment and stays so
Pause(pending, e) == Settle(pending, e, "catch")

\* audio.play() on element e returns a promise: on an element that has
\* loaded enough to play its fulfilment is queued at once, whether or not
\* canplay has been dispatched; on a loading element it waits until the
\* element has loaded; the element may also refuse to play
Play(e) ==
    {[audio |-> e, settle |-> IF e \in ready THEN "then" ELSE "wait"],
     [audio |-> e, settle |-> "catch"]}

\* the listeners of element e are attached
Listening(e) == hooked /\ audio # 0 /\ e = audio

AudioInit ==
    /\ hooked = TRUE
    /\ \E u \in Urls \cup {"none"} :
        /\ url = u
        /\ audio = IF u = "none" THEN 0 ELSE 1
        /\ created = audio
    /\ NoPlayback
    /\ plays = << >>
    /\ ready = {}
    /\ closure = FALSE
    /\ heard = [op |-> "mount", audio |-> audio]
    /\ NoModal
    /\ NoPage
    /\ NoRecords

\* the component passes another url: the hook renders with the updates that
\* are scheduled, the cleanup of the effect runs for the old element, then
\* the effect runs for the new url; the render for the state the effect has
\* set follows in HookRender
UrlChange(u) ==
    /\ hooked
    /\ u # url
    /\ u # "none" => created < MaxAudios
    /\ url' = u
    /\ closure' = isPlaying
    /\ plays' = IF audio # 0 THEN Pause(plays, audio) ELSE plays
    /\ IF u = "none"
       THEN /\ audio' = 0
            /\ UNCHANGED <<created, isPlaying, currentTime, duration,
                           isLoading, error>>
       ELSE /\ created' = created + 1
            /\ audio' = created + 1
            /\ EffectReset
    /\ heard' = [op |-> "url", audio |-> audio']
    /\ UNCHANGED <<hooked, ready>>
    /\ UNCHANGED besideAudio

\* the component unmounts: the cleanup runs and the state of the hook is gone
HookUnmount ==
    /\ hooked
    /\ hooked' = FALSE
    /\ url' = "none"
    /\ audio' = 0
    /\ plays' = IF audio # 0 THEN Pause(plays, audio) ELSE plays
    /\ isPlaying' = FALSE
    /\ currentTime' = 0
    /\ duration' = 0
    /\ isLoading' = FALSE
    /\ error' = "null"
    /\ closure' = FALSE
    /\ heard' = [op |-> "unmount", audio |-> 0]
    /\ UNCHANGED <<created, ready>>
    /\ UNCHANGED besideAudio

\* the render that follows a callback that has set isPlaying: togglePlay is
\* created again with the new value
HookRender ==
    /\ hooked
    /\ closure # isPlaying
    /\ closure' = isPlaying
    /\ heard' = [op |-> "render", audio |-> audio]
    /\ UNCHANGED <<hooked, url, audio, created, isPlaying, currentTime,
                   duration, isLoading, error, plays, ready>>
    /\ UNCHANGED besideAudio

\* togglePlay of the last render: it reads audioRef.current when it is called
\* and isPlaying as it was at that render
TogglePlay ==
    /\ hooked
    /\ audio # 0
    /\ IF closure
       THEN /\ plays' = Pause(plays, audio)
            /\ isPlaying' = FALSE
       ELSE /\ Len(plays) < MaxPlays
            /\ \E promise \in Play(audio) : plays' = Append(plays, promise)
            /\ isPlaying' = isPlaying
    /\ heard' = [op |-> "toggle", audio |-> audio]
    /\ UNCHANGED <<hooked, url, audio, created, currentTime, duration,
                   isLoading, error, ready, closure>>
    /\ UNCHANGED besideAudio

\* seek(time)
Seek(time) ==
    /\ hooked
    /\ audio # 0
    /\ currentTime' = time
    /\ heard' = [op |-> "seek", audio |-> audio]
    /\ UNCHANGED <<hooked, url, audio, created, isPlaying, duration,
                   isLoading, error, plays, ready, closure>>
    /\ UNCHANGED besideAudio

\* a promise of play() is fulfilled: .then(() => setIsPlaying(true))
PlayFulfilled(i) ==
    /\ i \in 1..Len(plays)
    /\ plays[i].settle = "then"
    /\ plays' = SubSeq(plays, 1, i - 1) \o SubSeq(plays, i + 1, Len(plays))
    /\ isPlaying' = IF hooked THEN TRUE ELSE isPlaying
    /\ heard' = [op |-> "then", audio |-> plays[i].audio]
    /\ UNCHANGED <<hooked, url, audio, created, currentTime, duration,
                   isLoading, error, ready, closure>>
    /\ UNCHANGED besideAudio

\* a promise of play() is rejected, by pause() or because the element may not
\* or cannot play: .catch(() => setError('Playback failed'))
PlayRejected(i) ==
    /\ i \in 1..Len(plays)
    /\ plays[i].settle = "catch"
    /\ plays' = SubSeq(plays, 1, i - 1) \o SubSeq(plays, i + 1, Len(plays))
    /\ error' = IF hooked THEN "Playback failed" ELSE error
    /\ heard' = [op |-> "catch", audio |-> plays[i].audio]
    /\ UNCHANGED <<hooked, url, audio, created, isPlaying, currentTime,
                   duration, isLoading, ready, closure>>
    /\ UNCHANGED besideAudio

\* element e dispatches loadstart: onLoadStart
LoadStart(e) ==
    /\ e \in 1..created
    /\ isLoading' = IF Listening(e) THEN TRUE ELSE isLoading
    /\ heard' = [op |-> "loadstart", audio |-> e]
    /\ UNCHANGED <<hooked, url, audio, created, isPlaying, currentTime,
                   duration, error, plays, ready, closure>>
    /\ UNCHANGED besideAudio

\* element e dispatches loadedmetadata: onLoadedMetadata
LoadedMetadata(e, d) ==
    /\ e \in 1..created
    /\ duration' = IF Listening(e) THEN d ELSE duration
    /\ isLoading' = IF Listening(e) THEN FALSE ELSE isLoading
    /\ heard' = [op |-> "loadedmetadata", audio |-> e]
    /\ UNCHANGED <<hooked, url, audio, created, isPlaying, currentTime,
                   error, plays, ready, closure>>
    /\ UNCHANGED besideAudio

\* element e has loaded enough to play (its readyState is HAVE_FUTURE_DATA
\* or more): the promises of play() that waited for it will be fulfilled;
\* the canplay event is dispatched in a later task
Loaded(e) ==
    /\ e \in 1..created
    /\ e \notin ready
    /\ ready' = ready \cup {e}
    /\ plays' = Settle(plays, e, "then")
    /\ heard' = [op |-> "loaded", audio |-> e]
    /\ UNCHANGED <<hooked, url, audio, created, isPlaying, currentTime,
                   duration, isLoading, error, closure>>
    /\ UNCHANGED besideAudio

\* element e, which has loaded, dispatches canplay: onCanPlay
CanPlay(e) ==
    /\ e \in ready
    /\ isLoading' = IF Listening(e) THEN FALSE ELSE isLoading
    /\ heard' = [op |-> "canplay", audio |-> e]
    /\ UNCHANGED <<hooked, url, audio, created, isPlaying, currentTime,
                   duration, error, plays, ready, closure>>
    /\ UNCHANGED besideAudio

\* element e dispatches timeupdate: onTimeUpdate
TimeUpdate(e, t) ==
    /\ e \in 1..created
    /\ currentTime' = IF Listening(e) THEN t ELSE currentTime
    /\ heard' = [op |-> "timeupdate", audio |-> e]
    /\ UNCHANGED <<hooked, url, audio, created, isPlaying, duration,
                   isLoading, error, plays, ready, closure>>
    /\ UNCHANGED besideAudio

\* element e dispatches ended: onEnded
Ended(e) ==
    /\ e \in 1..created
    /\ isPlaying' = IF Listening(e) THEN FALSE ELSE isPlaying
    /\ currentTime' = IF Listening(e) THEN 0 ELSE currentTime
    /\ heard' = [op |-> "ended", audio |-> e]
    /\ UNCHANGED <<hooked, url, audio, created, duration, isLoading, error,
                   plays, ready, closure>>
    /\ UNCHANGED besideAudio

\* element e dispatches error: onError; the promises of play() that waited
\* for the element will be rejected
LoadError(e) ==
    /\ e \in 1..created
    /\ error' = IF Listening(e) THEN "Failed to load audio" ELSE error
    /\ isLoading' = IF Listening(e) THEN FALSE ELSE isLoading
    /\ plays' = Settle(plays, e, "catch")
    /\ heard' = [op |-> "error", audio |-> e]
    /\ UNCHANGED <<hooked, url, audio, created, isPlaying, currentTime,
                   duration, ready, closure>>
    /\ UNCHANGED besideAudio

AudioNext ==
    \/ \E u \in Urls \cup {"none"} : UrlChange(u)
    \/ HookUnmount
    \/ HookRender
    \/ TogglePlay
    \/ \E time \in Times : Seek(time)
    \/ \E i \in 1..Len(plays) : PlayFulfilled(i)
    \/ \E i \in 1..Len(plays) : PlayRejected(i)
    \/ \E e \in 1..created : LoadStart(e)
    \/ \E e \in 1..created, d \in Durations : LoadedMetadata(e, d)
    \/ \E e \in 1..created : Loaded(e)
    \/ \E e \in 1..created : CanPlay(e)
    \/ \E e \in 1..created, t \in Times : TimeUpdate(e, t)
    \/ \E e \in 1..created : Ended(e)
    \/ \E e \in 1..created : LoadError(e)

AudioSpec == AudioInit /\ [][AudioNext]_vars

AudioCallbacks ==
    {"then", "catch", "loadstart", "loadedmetadata", "canplay", "timeupdate",
     "ended", "error"}

\* C29: a callback of an Audio element that is no longer the element of the
\* hook, because the url has changed or the hook is unmounted, changes none of
\* isPlaying, currentTime, duration, isLoading, error.
C29_StaleAudioCallbackNoOp ==
    [][(heard'.op \in AudioCallbacks /\ (~hooked \/ heard'.audio # audio))
        => UNCHANGED <<isPlaying, currentTime, duration, isLoading,
                       error>>]_vars

====
